---- MODULE Spec2Model ----
(***************************************************************************)
(* A model of the cruise-planner backend: the affiliate URL rewriter      *)
(* (backend/affiliate_config.py), the activity post-processing of a plan  *)
(* and the generate_plan request handler (backend/server.py) over the     *)
(* trip and plan store (backend/dynamodb_client.py).                      *)
(*                                                                         *)
(* Text is modelled as a sequence of symbols.  A symbol is a TLA+ string  *)
(* that stands for a fixed piece of text: one character where the code    *)
(* looks at characters ("%", "+", " ", ".", a hex digit), a run of        *)
(* letters and digits otherwise ("viator", "com", "u1").  Two texts are   *)
(* equal iff their symbol sequences are equal: the symbols are chosen so  *)
(* that no text has two readings.                                         *)
(***************************************************************************)
EXTENDS Integers, Sequences, FiniteSets, TLC

VARIABLES
    env,         \* os.environ: affiliate variable -> value, or Unset
    url,         \* the argument of add_affiliate_params
    out1,        \* what add_affiliate_params(url) did: [raised, val]
    out2,        \* what add_affiliate_params(out1.val) did
    rpc          \* position of the rewriter scenario

VARIABLES
    heap,        \* the dicts allocated so far, by reference
    heap0,       \* the heap before process_plan_activities was called
    acts,        \* the argument of process_plan_activities
    ares,        \* what process_plan_activities(acts) did: [raised, val]
    apc          \* position of the activities scenario

VARIABLES
    db_client,   \* server.db_client: "client", or "none" when start-up failed
    groq_key,    \* os.environ["GROQ_API_KEY"], or Unset
    ids,         \* how many trip, port and plan ids uuid4 has handed out
    trips,       \* the trip items of the table, by trip id
    plans,       \* the plan items of the table, in the order they were put
    reqs,        \* the request each worker handles, with the locals of its handler
    gpc,         \* position of the generate_plan run
    greq,        \* its request: trip_id, port_id, device_id
    gtrip,       \* trip, as get_trip returned it
    gport,       \* port, as found in trip["ports"]
    gweather,    \* weather_data
    gtext,       \* response_text
    gprompt,     \* prompt
    gplan,       \* plan_data
    gerr,        \* the exception the LLM client raised, with its message
    gcalls,      \* the calls the run has made to the table and the providers
    gout         \* the response of the run: status, error, plan

rewriteVars == <<url, out1, out2, rpc>>
actVars == <<heap0, acts, ares, apc>>
storeVars == <<db_client, ids, trips, plans>>
runVars == <<gpc, greq, gtrip, gport, gweather, gprompt, gtext, gplan, gerr, gcalls, gout>>
genVars == <<groq_key, storeVars, reqs, runVars>>
vars == <<env, heap, rewriteVars, actVars, genVars>>

----------------------------------------------------------------------------
(* Text helpers (Python str methods).                                      *)

RECURSIVE Concat(_)
Concat(ss) == IF ss = <<>> THEN <<>> ELSE Head(ss) \o Concat(Tail(ss))

\* str.lower(), symbol by symbol.
LowerSym(c) ==
    CASE c = "VIATOR" -> "viator"
      [] c = "WWW"    -> "www"
      [] c = "COM"    -> "com"
      [] c = "HTTPS"  -> "https"
      [] c = "Rate_Limit"     -> "rate_limit"
      [] c = "Quota"          -> "quota"
      [] c = "API Key"        -> "api key"
      [] c = "Authentication" -> "authentication"
      [] c = "Unauthorized"   -> "unauthorized"
      [] OTHER        -> c

Lower(s) == [i \in 1..Len(s) |-> LowerSym(s[i])]

\* str.startswith / str.endswith.
StartsWith(s, pre) ==
    /\ Len(pre) <= Len(s)
    /\ SubSeq(s, 1, Len(pre)) = pre

EndsWith(s, suf) ==
    /\ Len(suf) <= Len(s)
    /\ SubSeq(s, Len(s) - Len(suf) + 1, Len(s)) = suf

IsSpace(c) == c \in {" ", "\t", "\n"}

\* str.strip()
RECURSIVE LStrip(_)
LStrip(s) == IF s # <<>> /\ IsSpace(Head(s)) THEN LStrip(Tail(s)) ELSE s

RECURSIVE RStrip(_)
RStrip(s) ==
    IF s # <<>> /\ IsSpace(s[Len(s)]) THEN RStrip(SubSeq(s, 1, Len(s) - 1)) ELSE s

Strip(s) == RStrip(LStrip(s))

----------------------------------------------------------------------------
(* Python values.  Every value is a record with a "type"; a str is either *)
(* a URL text, given by the pieces urlsplit cuts it into, or a text       *)
(* urlparse rejects with ValueError (an unbalanced "[" in the authority). *)

PyNone == [type |-> "NoneType"]
PyInt(n) == [type |-> "int", n |-> n]
PyEmptyList == [type |-> "list", items |-> <<>>]
PyStrEmpty == [type |-> "str", form |-> "empty"]
PyStrMalformed == [type |-> "str", form |-> "malformed"]

UrlText(scheme, netloc, path, params, query, fragment) ==
    [type |-> "str", form |-> "url", scheme |-> scheme, netloc |-> netloc,
     path |-> path, params |-> params, query |-> query, fragment |-> fragment]

\* bool(v): None, "", 0 and [] are false.
Truthy(v) ==
    CASE v.type = "NoneType" -> FALSE
      [] v.type = "int"      -> v.n # 0
      [] v.type = "list"     -> v.items # <<>>
      [] v.type = "str"      -> v.form # "empty"
      [] v.type = "object"   -> DOMAIN v.items # {}
      [] OTHER               -> TRUE

IsStr(v) == v.type = "str"

\* The outcome of a call: a returned value or a raised exception.
Return(v) == [raised |-> FALSE, val |-> v]
Raise(e) == [raised |-> TRUE, exc |-> e]

----------------------------------------------------------------------------
(* urllib.parse: urlparse / urlunparse, parse_qs, urlencode.               *)

\* The pieces of a URL text as urlparse reports them.  urlparse lower-cases
\* the scheme and leaves the authority (userinfo, host, port) as written;
\* it raises ValueError on a malformed authority and fails on a non-str.
UrlParse(v) ==
    IF ~IsStr(v) THEN Raise("AttributeError")
    ELSE IF v.form = "malformed" THEN Raise("ValueError")
    ELSE IF v.form = "empty" THEN
        Return([scheme |-> <<>>, netloc |-> <<>>, path |-> <<>>,
                params |-> <<>>, query |-> <<>>, fragment |-> <<>>])
    ELSE Return([scheme |-> Lower(v.scheme), netloc |-> v.netloc,
                 path |-> v.path, params |-> v.params, query |-> v.query,
                 fragment |-> v.fragment])

\* urlunparse((scheme, netloc, path, params, query, fragment)).
UrlUnparse(scheme, netloc, path, params, query, fragment) ==
    UrlText(scheme, netloc, path, params, query, fragment)

HexDigits == {"0", "2", "5", "B"}

HexVal(h) == CASE h = "0" -> 0 [] h = "2" -> 2 [] h = "5" -> 5 [] h = "B" -> 11

\* The character a percent-escaped byte decodes to (UTF-8, errors="replace":
\* a byte of 0x80 or more that starts no valid sequence becomes U+FFFD).
Chr(b) ==
    CASE b = 0  -> "NUL"
      [] b = 2  -> "STX"
      [] b = 5  -> "ENQ"
      [] b = 11 -> "VT"
      [] b = 32 -> " "
      [] b = 34 -> "\""
      [] b = 37 -> "%"
      [] b = 43 -> "+"
      [] b = 80 -> "P"
      [] b = 82 -> "R"
      [] b = 85 -> "U"
      [] b = 91 -> "["
      [] b >= 128 -> "U+FFFD"

\* unquote(): "%XY" with two hex digits is the byte; any other "%" stays.
RECURSIVE Unquote(_)
Unquote(s) ==
    IF s = <<>> THEN <<>>
    ELSE IF Len(s) >= 3 /\ s[1] = "%" /\ s[2] \in HexDigits /\ s[3] \in HexDigits
        THEN <<Chr(16 * HexVal(s[2]) + HexVal(s[3]))>> \o Unquote(SubSeq(s, 4, Len(s)))
    ELSE IF s[1] = "%EF%BF%BD" THEN <<"U+FFFD">> \o Unquote(Tail(s))
    ELSE IF s[1] = "%25EF%25BF%25BD" THEN <<"%EF%BF%BD">> \o Unquote(Tail(s))
    ELSE <<s[1]>> \o Unquote(Tail(s))

\* str.replace("+", " ")
PlusToSpace(s) == [i \in 1..Len(s) |-> IF s[i] = "+" THEN " " ELSE s[i]]

\* What parse_qsl does to a name or a value: unquote(x.replace("+", " ")).
UnquotePlus(s) == Unquote(PlusToSpace(s))

\* quote_plus() of one character: letters, digits and "_.-~" stay, a space
\* becomes "+", everything else is percent-escaped (UTF-8).
QuoteSym(c) ==
    CASE c = " "      -> <<"+">>
      [] c = "%"      -> <<"%", "2", "5">>
      [] c = "+"      -> <<"%", "2", "B">>
      [] c = "\""     -> <<"%", "2", "2">>
      [] c = "["      -> <<"%", "5", "B">>
      [] c = "NUL"    -> <<"%", "0", "0">>
      [] c = "STX"    -> <<"%", "0", "2">>
      [] c = "ENQ"    -> <<"%", "0", "5">>
      [] c = "VT"     -> <<"%", "0", "B">>
      [] c = "U+FFFD" -> <<"%EF%BF%BD">>
      [] c = "%EF%BF%BD" -> <<"%25EF%25BF%25BD">>
      [] OTHER        -> <<c>>

QuotePlus(s) == Concat([i \in 1..Len(s) |-> QuoteSym(s[i])])

\* A query string is its "&"-separated fields; a field is name "=" value,
\* a bare name (no "="), or empty (as between "&&").
Field(k, v) == [k |-> k, eq |-> TRUE, v |-> v]
BareField(k) == [k |-> k, eq |-> FALSE, v |-> <<>>]
EmptyField == BareField(<<>>)

\* parse_qsl(qs, keep_blank_values): empty fields are skipped; a field with
\* no "=" or with an empty value is kept only with keep_blank_values.
RECURSIVE ParseQsl(_, _)
ParseQsl(qs, keep_blank_values) ==
    IF qs = <<>> THEN <<>>
    ELSE LET f == Head(qs)
             rest == ParseQsl(Tail(qs), keep_blank_values)
         IN  IF f = EmptyField THEN rest
             ELSE IF ~f.eq /\ ~keep_blank_values THEN rest
             ELSE IF f.v = <<>> /\ ~keep_blank_values THEN rest
             ELSE <<[key |-> UnquotePlus(f.k), val |-> UnquotePlus(f.v)]>> \o rest

\* A dict, in insertion order: a sequence of entries with distinct keys.
DictKeys(d) == {d[i].key : i \in 1..Len(d)}
DictGet(d, k) == d[CHOOSE i \in 1..Len(d) : d[i].key = k].val
DictSet(d, k, v) ==
    IF k \in DictKeys(d)
    THEN [i \in 1..Len(d) |-> IF d[i].key = k THEN [key |-> k, val |-> v] ELSE d[i]]
    ELSE Append(d, [key |-> k, val |-> v])

\* parse_qs(): name -> list of the values of that name, names in the order
\* of their first field.
RECURSIVE ParseQsFold(_, _)
ParseQsFold(pairs, d) ==
    IF pairs = <<>> THEN d
    ELSE LET p == Head(pairs)
         IN  ParseQsFold(Tail(pairs),
                 IF p.key \in DictKeys(d)
                 THEN DictSet(d, p.key, Append(DictGet(d, p.key), p.val))
                 ELSE DictSet(d, p.key, <<p.val>>))

ParseQs(qs, keep_blank_values) == ParseQsFold(ParseQsl(qs, keep_blank_values), <<>>)

\* urlencode(dict): "name=value" per entry, both quote_plus-ed.
UrlEncode(d) == [i \in 1..Len(d) |-> Field(QuotePlus(d[i].key), QuotePlus(d[i].val))]

----------------------------------------------------------------------------
(* backend/affiliate_config.py                                             *)

Unset == [set |-> FALSE]
EnvVal(s) == [set |-> TRUE, s |-> s]

\* os.environ.get(name, default)
Environ(e, name, default) == IF e[name].set THEN e[name].s ELSE default

EnvVars == {"VIATOR_AFFILIATE_ID", "GETYOURGUIDE_AFFILIATE_ID", "KLOOK_AFFILIATE_ID",
            "TRIPADVISOR_AFFILIATE_ID", "BOOKING_AFFILIATE_ID"}

Param(name, value) == [key |-> name, val |-> value]

\* The partner table of get_affiliate_config, in the order of the dict; the
\* id of each partner is read from the environment at the call.
AffiliatePartners(e) == <<
    [domain |-> <<"viator", ".", "com">>,
     config |-> <<Param(<<"aid">>, Environ(e, "VIATOR_AFFILIATE_ID", <<>>)),
                  Param(<<"mcid">>, <<"cruise-planner-app">>)>>],
    [domain |-> <<"getyourguide", ".", "com">>,
     config |-> <<Param(<<"partner_id">>, Environ(e, "GETYOURGUIDE_AFFILIATE_ID", <<>>)),
                  Param(<<"utm_source">>, <<"cruise-planner">>),
                  Param(<<"utm_medium">>, <<"affiliate">>)>>],
    [domain |-> <<"klook", ".", "com">>,
     config |-> <<Param(<<"affiliate_id">>, Environ(e, "KLOOK_AFFILIATE_ID", <<>>)),
                  Param(<<"source">>, <<"cruise-planner">>)>>],
    [domain |-> <<"tripadvisor", ".", "com">>,
     config |-> <<Param(<<"pid">>, Environ(e, "TRIPADVISOR_AFFILIATE_ID", <<>>)),
                  Param(<<"source">>, <<"cruise-planner">>)>>],
    [domain |-> <<"booking", ".", "com">>,
     config |-> <<Param(<<"aid">>, Environ(e, "BOOKING_AFFILIATE_ID", <<>>)),
                  Param(<<"label">>, <<"cruise-planner-booking">>)>> ] >>

PartnerDomains == {AffiliatePartners([v \in EnvVars |-> Unset])[i].domain : i \in 1..5}


\* A suffix test that forgets the "." before the partner domain.
DomainMatches_NoDot(domain, partner_domain) ==
    \/ domain = partner_domain
    \/ EndsWith(domain, partner_domain)

\* The test of get_affiliate_config's loop: equal to the partner domain, or
\* ends with "." + partner domain.
DomainMatches(domain, partner_domain) ==
    \/ domain = partner_domain
    \/ EndsWith(domain, <<".">> \o partner_domain)

NoConfig == [found |-> FALSE]

\* get_affiliate_config(domain): the config of the first partner that
\* matches, or None.
GetAffiliateConfig(domain, e) ==
    LET partners == AffiliatePartners(e)
        hits == {i \in 1..Len(partners) : DomainMatches(domain, partners[i].domain)}
    IN  IF hits = {} THEN NoConfig
        ELSE [found |-> TRUE,
              config |-> partners[CHOOSE i \in hits : \A j \in hits : i <= j].config]

PyText(s) == [type |-> "str", form |-> IF s = <<>> THEN "empty" ELSE "text", text |-> s]


\* get_domain_from_url without its try/except: a ValueError of urlparse
\* leaves the function.
GetDomainFromUrl_NoTry(u) ==
    IF ~Truthy(u) THEN Return(PyNone)
    ELSE LET parsed == UrlParse(u)
         IN  IF parsed.raised THEN parsed
             ELSE LET domain == Lower(parsed.val.netloc)
                  IN  IF domain = <<>> THEN Return(PyNone)
                      ELSE IF StartsWith(domain, <<"www", ".">>)
                          THEN Return(PyText(SubSeq(domain, 3, Len(domain))))
                      ELSE Return(PyText(domain))

\* get_domain_from_url(url): the lower-cased authority without one leading
\* "www.", or None; the body is inside try/except Exception.
GetDomainFromUrl(u) ==
    IF ~Truthy(u) THEN Return(PyNone)
    ELSE LET parsed == UrlParse(u)
         IN  IF parsed.raised THEN Return(PyNone)
             ELSE LET domain == Lower(parsed.val.netloc)
                  IN  IF domain = <<>> THEN Return(PyNone)
                      ELSE IF StartsWith(domain, <<"www", ".">>)
                          THEN Return(PyText(SubSeq(domain, 3, Len(domain))))
                      ELSE Return(PyText(domain))


\* A filter that drops empty values only ("if value").
ActiveParams_NoStrip(config) == SelectSeq(config, LAMBDA p : p.val # <<>>)

\* The dict comprehension of add_affiliate_params: the parameters of the
\* config whose value is non-empty and not only whitespace.
ActiveParams(config) == SelectSeq(config, LAMBDA p : p.val # <<>> /\ Strip(p.val) # <<>>)

\* flat_params: the first value of every name.
FlatParams(query_params) ==
    [i \in 1..Len(query_params) |->
        [key |-> query_params[i].key, val |-> query_params[i].val[1]]]


\* A loop that sets every active parameter, present or not.
RECURSIVE AddParams_Override(_, _)
AddParams_Override(flat_params, active_params) ==
    IF active_params = <<>> THEN flat_params
    ELSE LET p == Head(active_params)
         IN  AddParams_Override(DictSet(flat_params, p.key, p.val), Tail(active_params))

\* The loop over active_params: a parameter is added unless its name is
\* already a key.
RECURSIVE AddParams(_, _)
AddParams(flat_params, active_params) ==
    IF active_params = <<>> THEN flat_params
    ELSE LET p == Head(active_params)
         IN  AddParams(IF p.key \notin DictKeys(flat_params)
                       THEN DictSet(flat_params, p.key, p.val)
                       ELSE flat_params,
                       Tail(active_params))


\* A rebuild that appends the encoded parameters to the query as written.
RebuildUrl_Append(u, active_params) ==
    LET parsed == UrlParse(u)
    IN  IF parsed.raised THEN parsed
        ELSE LET p == parsed.val
             IN  Return(UrlUnparse(p.scheme, p.netloc, p.path, p.params,
                                   p.query \o UrlEncode(active_params), p.fragment))

\* A rebuild that puts the compared domain (lower-cased, "www." removed) in
\* place of the authority.
RebuildUrl_Domain(u, active_params) ==
    LET parsed == UrlParse(u)
    IN  IF parsed.raised THEN parsed
        ELSE LET p == parsed.val
                 domain == Lower(p.netloc)
                 host == IF StartsWith(domain, <<"www", ".">>)
                         THEN SubSeq(domain, 3, Len(domain)) ELSE domain
                 query_params == ParseQs(p.query, TRUE)
                 flat_params == AddParams(FlatParams(query_params), active_params)
             IN  Return(UrlUnparse(p.scheme, host, p.path, p.params,
                                   UrlEncode(flat_params), p.fragment))

\* The try block of add_affiliate_params: parse, merge, rebuild.
RebuildUrl(u, active_params) ==
    LET parsed == UrlParse(u)
    IN  IF parsed.raised THEN parsed
        ELSE LET p == parsed.val
                 query_params == ParseQs(p.query, TRUE)
                 flat_params == AddParams(FlatParams(query_params), active_params)
                 new_query == UrlEncode(flat_params)
             IN  Return(UrlUnparse(p.scheme, p.netloc, p.path, p.params,
                                   new_query, p.fragment))

\* add_affiliate_params(url) under the environment e.
AddAffiliateParams(u, e) ==
    IF ~Truthy(u) \/ ~IsStr(u) THEN Return(u)
    ELSE LET d == GetDomainFromUrl(u)
         IN  IF d.raised THEN d
             ELSE IF ~Truthy(d.val) THEN Return(u)
             ELSE LET affiliate_config == GetAffiliateConfig(d.val.text, e)
                  IN  IF ~affiliate_config.found THEN Return(u)
                      ELSE LET active_params == ActiveParams(affiliate_config.config)
                           IN  IF active_params = <<>> THEN Return(u)
                               ELSE LET r == RebuildUrl(u, active_params)
                                    IN  IF r.raised THEN Return(u) ELSE r

----------------------------------------------------------------------------
(* process_plan_activities.  A dict is an object on the heap, named by a   *)
(* reference; the heap is the sequence of the dicts allocated so far.  The *)
(* other values (None, int, str, list of such) are immutable here.         *)

DictRef(r) == [type |-> "dict", ref |-> r]
PyList(items) == [type |-> "list", items |-> items]

\* dict.copy() that copies nothing: the "copy" is the dict itself.
DictCopy_Alias(h, r) == [heap |-> h, ref |-> r]

\* dict.copy(): a new dict with the same items.
DictCopy(h, r) == [heap |-> Append(h, h[r]), ref |-> Len(h) + 1]

\* processed_activities.insert(0, processed_activity)
AppendProcessed_Front(processed, item) == <<item>> \o processed

\* processed_activities.append(processed_activity)
AppendProcessed(processed, item) == Append(processed, item)

\* The body of the for loop for one activity: its copy with the booking_url
\* rewritten.  A value with no copy() method (None, int, str) raises
\* AttributeError; a list is copied and holds no "booking_url".
ProcessActivity(h, activity, e) ==
    IF activity.type = "dict" THEN
        LET c == DictCopy(h, activity.ref)
            d == c.heap[c.ref]
        IN  IF "booking_url" \in DOMAIN d /\ Truthy(d["booking_url"])
            THEN LET r == AddAffiliateParams(d["booking_url"], e)
                 IN  IF r.raised THEN [raised |-> TRUE, exc |-> r.exc, heap |-> c.heap]
                     ELSE [raised |-> FALSE,
                           heap |-> [c.heap EXCEPT ![c.ref]["booking_url"] = r.val],
                           item |-> DictRef(c.ref)]
            ELSE [raised |-> FALSE, heap |-> c.heap, item |-> DictRef(c.ref)]
    ELSE IF activity.type = "list" THEN
        [raised |-> FALSE, heap |-> h, item |-> activity]
    ELSE [raised |-> TRUE, exc |-> "AttributeError", heap |-> h]

\* The for loop; step is the one outcome of the body for the first item.
RECURSIVE ProcessLoop(_, _, _, _)
ProcessLoop(h, items, processed, e) ==
    IF items = <<>> THEN [heap |-> h, out |-> Return(PyList(processed))]
    ELSE CHOOSE result \in
            {IF step.raised THEN [heap |-> step.heap, out |-> Raise(step.exc)]
             ELSE ProcessLoop(step.heap, Tail(items),
                              AppendProcessed(processed, step.item), e) :
                step \in {ProcessActivity(h, Head(items), e)}} : TRUE

\* process_plan_activities(activities): the heap after the call and what the
\* call returned or raised.
ProcessPlanActivities(h, activities, e) ==
    IF ~Truthy(activities) \/ activities.type # "list"
    THEN [heap |-> h, out |-> Return(activities)]
    ELSE ProcessLoop(h, activities.items, <<>>, e)

----------------------------------------------------------------------------
(* The rewriter scenario: a URL and an environment are drawn, then          *)
(* add_affiliate_params is applied to the URL and once more to its result.  *)

MaxFields == 2

Hosts == {
    <<"viator", ".", "com">>,
    <<"www", ".", "viator", ".", "com">>,
    <<"WWW", ".", "VIATOR", ".", "COM">>,
    <<"www", ".", "www", ".", "viator", ".", "com">>,
    <<"tours", ".", "viator", ".", "com">>,
    <<"not", "viator", ".", "com">>,
    <<"www", ".", "not", "viator", ".", "com">>,
    <<"www", "viator", ".", "com">>,
    <<"viator", ".", "com", ".", "evil", ".", "com">>,
    <<"www", ".", "klook", ".", "com", ".", "fake", ".", "com">>,
    <<"www", ".", "klook", ".", "com">>,
    <<"booking", ".", "com">>,
    <<"viator", ".", "com", ":", "443">>,
    <<"example", ".", "com">>,
    <<>> }

QueryHosts == {
    <<"www", ".", "viator", ".", "com">>,
    <<"www", ".", "klook", ".", "com">> }

Fields == {
    Field(<<"aid">>, <<"u1">>),
    Field(<<"aid">>, <<"u2">>),
    Field(<<"aid">>, <<>>),
    BareField(<<"aid">>),
    Field(<<"mcid">>, <<"u1">>),
    Field(<<"source">>, <<"u1">>),
    Field(<<"q">>, <<"x", "%", "2", "0", "y">>),
    Field(<<"q">>, <<"x", "+", "y">>),
    Field(<<"q">>, <<"%", "2", "5">>),
    Field(<<"q">>, <<"%", "B", "0">>),
    Field(<<"q">>, <<"%", "x">>),
    EmptyField }

RECURSIVE SeqsUpTo(_, _)
SeqsUpTo(S, n) ==
    IF n = 0 THEN {<<>>}
    ELSE LET shorter == SeqsUpTo(S, n - 1)
         IN  shorter \cup {Append(q, f) : q \in shorter, f \in S}

Queries == SeqsUpTo(Fields, MaxFields)

Urls ==
    {UrlText(s, h, <<"/tour">>, pa, q, fr) :
        s \in {<<"https">>, <<"HTTPS">>, <<>>}, h \in Hosts,
        pa \in {<<>>, <<"p">>}, q \in SeqsUpTo(Fields, 1),
        fr \in {<<>>, <<"top">>}}
    \cup {UrlText(<<"https">>, h, <<"/tour">>, <<>>, q, <<>>) :
        h \in QueryHosts, q \in Queries}

PyValues == Urls \cup {PyNone, PyStrEmpty, PyStrMalformed, PyInt(0), PyInt(5), PyEmptyList}

IdValues == {Unset, EnvVal(<<>>), EnvVal(<<" ">>), EnvVal(<<"k", " ", "1">>)}

Envs ==
    {[v \in EnvVars |-> IF v = "VIATOR_AFFILIATE_ID" THEN a ELSE b] :
        a \in IdValues, b \in {Unset, EnvVal(<<"p9">>)}}

Pending == [raised |-> FALSE, val |-> [type |-> "pending"]]

RewriteIdle ==
    /\ url = PyNone
    /\ out1 = Pending
    /\ out2 = Pending
    /\ rpc = "off"

ActIdle ==
    /\ heap = <<>>
    /\ heap0 = <<>>
    /\ acts = PyNone
    /\ ares = Pending
    /\ apc = "off"

NoTrip == [exists |-> FALSE]
NoValue == [type |-> "pending"]
NoResponse == [status |-> 0, error |-> "pending", retry_after |-> PyNone, plan |-> NoValue]

GenIdle ==
    /\ db_client = "none"
    /\ groq_key = Unset
    /\ ids = [trip |-> 0, port |-> 0, plan |-> 0]
    /\ trips = <<>>
    /\ plans = <<>>
    /\ reqs = <<>>
    /\ gpc = "off"
    /\ greq = NoValue
    /\ gtrip = NoValue
    /\ gport = NoValue
    /\ gweather = NoValue
    /\ gprompt = <<>>
    /\ gtext = <<>>
    /\ gplan = NoValue
    /\ gerr = NoValue
    /\ gcalls = <<>>
    /\ gout = NoResponse

RewriteInit ==
    /\ env \in Envs
    /\ url \in PyValues
    /\ out1 = Pending
    /\ out2 = Pending
    /\ rpc = "start"
    /\ ActIdle
    /\ GenIdle

\* add_affiliate_params(url)
Rewrite ==
    /\ rpc = "start"
    /\ out1' = AddAffiliateParams(url, env)
    /\ rpc' = "once"
    /\ UNCHANGED <<env, heap, url, out2, actVars, genVars>>

\* add_affiliate_params(add_affiliate_params(url))
RewriteAgain ==
    /\ rpc = "once"
    /\ ~out1.raised
    /\ out2' = AddAffiliateParams(out1.val, env)
    /\ rpc' = "twice"
    /\ UNCHANGED <<env, heap, url, out1, actVars, genVars>>

RewriteNext == Rewrite \/ RewriteAgain

SpecRewrite == RewriteInit /\ [][RewriteNext]_vars

----------------------------------------------------------------------------
(* The activities scenario: a list of activities as json.loads builds it   *)
(* (every dict a fresh object) or another value is drawn, then              *)
(* process_plan_activities is applied to it.                                *)

MaxActs == 2

ViatorUrl(q) ==
    UrlText(<<"https">>, <<"www", ".", "viator", ".", "com">>, <<"/tour">>, <<>>, q, <<>>)

BookingUrls == {
    PyNone, PyStrEmpty, PyStrMalformed, PyInt(5),
    ViatorUrl(<<>>),
    ViatorUrl(<<Field(<<"aid">>, <<"u1">>)>>),
    UrlText(<<"https">>, <<"example", ".", "com">>, <<"/vatican">>, <<>>, <<>>, <<>>) }

\* The activity dicts the provider may send, and the values that are no dict.
ActivityDicts ==
    {[order |-> PyInt(o), name |-> PyText(<<"Tour">>)] : o \in 1..2}
    \cup {[order |-> PyInt(o), name |-> PyText(<<"Tour">>), booking_url |-> b] :
            o \in 1..2, b \in BookingUrls}

Elements == {[dict |-> d] : d \in ActivityDicts}
            \cup {[value |-> v] : v \in {PyNone, PyInt(5), PyEmptyList}}

IsDictElement(x) == "dict" \in DOMAIN x

\* The heap and the list items of a list of elements: each dict is allocated
\* in turn, the other values stand for themselves.
RECURSIVE Allocate(_, _, _)
Allocate(elements, h, items) ==
    IF elements = <<>> THEN [heap |-> h, items |-> items]
    ELSE LET x == Head(elements)
         IN  IF IsDictElement(x)
             THEN Allocate(Tail(elements), Append(h, x.dict), Append(items, DictRef(Len(h) + 1)))
             ELSE Allocate(Tail(elements), h, Append(items, x.value))

ActEnvs ==
    {[v \in EnvVars |-> a] : a \in {Unset, EnvVal(<<"k", " ", "1">>)}}

ActInit ==
    /\ env \in ActEnvs
    /\ \/ \E elements \in SeqsUpTo(Elements, MaxActs) :
             LET a == Allocate(elements, <<>>, <<>>)
             IN  heap = a.heap /\ acts = PyList(a.items)
       \/ heap = <<>> /\ acts \in {PyNone, PyInt(5)}
    /\ heap0 = heap
    /\ ares = Pending
    /\ apc = "start"
    /\ RewriteIdle
    /\ GenIdle

\* process_plan_activities(acts)
ProcessCall ==
    /\ apc = "start"
    /\ LET r == ProcessPlanActivities(heap, acts, env)
       IN  /\ heap' = r.heap
           /\ ares' = r.out
    /\ apc' = "done"
    /\ UNCHANGED <<env, heap0, acts, rewriteVars, genVars>>

ActNext == ProcessCall

SpecActivities == ActInit /\ [][ActNext]_vars

----------------------------------------------------------------------------
(* Properties of the rewriter.                                             *)

IsUrl(v) == v.type = "str" /\ v.form = "url"

\* The host a URL is compared by: lower-cased, one leading "www." removed.
ComparedHost(u) ==
    LET h == Lower(u.netloc)
    IN  IF StartsWith(h, <<"www", ".">>) THEN SubSeq(h, 3, Len(h)) ELSE h

OnDomain(u, d) == ComparedHost(u) = d \/ EndsWith(ComparedHost(u), <<".">> \o d)

Recognized(u) == IsUrl(u) /\ \E d \in PartnerDomains : OnDomain(u, d)

LookAlikes == {
    <<"not", "viator", ".", "com">>,
    <<"www", ".", "not", "viator", ".", "com">>,
    <<"www", "viator", ".", "com">>,
    <<"viator", ".", "com", ".", "evil", ".", "com">>,
    <<"www", ".", "klook", ".", "com", ".", "fake", ".", "com">> }

\* The rule of the partner whose domain the URL is on, with the values the
\* environment gives.
RuleOf(u, e) ==
    LET partners == AffiliatePartners(e)
    IN  partners[CHOOSE i \in 1..Len(partners) : OnDomain(u, partners[i].domain)].config

Blank(s) == \A i \in 1..Len(s) : IsSpace(s[i])

\* The names and values of a query string, as parse_qs reads them.
QueryOf(u) == ParseQs(u.query, TRUE)

Rewritten == rpc # "start" /\ ~out1.raised /\ out1.val # url

\* C1: add_affiliate_params changes a URL only if its host (lower-cased, one
\* leading "www." removed) equals a partner domain or ends with "." and a
\* partner domain; every other host, the look-alikes included, is returned
\* unchanged whatever the configuration is.
C1_OnlyPartnerHostsRewritten ==
    rpc # "start" =>
        /\ ~out1.raised
        /\ out1.val # url => Recognized(url)
        /\ (IsUrl(url) /\ url.netloc \in LookAlikes) => out1.val = url

C1_Witness ==
    /\ rpc = "once"
    /\ IsUrl(url)
    /\ url.netloc = <<"www", ".", "not", "viator", ".", "com">>
    /\ env["VIATOR_AFFILIATE_ID"] = EnvVal(<<"k", " ", "1">>)
    /\ out1.val = url

\* C2: for a URL on a recognized domain and a fixed configuration, rewriting
\* twice gives the same URL as rewriting once.
C2_Idempotent ==
    (rpc = "twice" /\ Recognized(url)) => out2 = out1

C2_Witness ==
    /\ rpc = "twice"
    /\ Recognized(url)
    /\ out1.val # url
    /\ Len(url.query) = 2
    /\ out2 = out1

\* C3: a query key that has the name of an affiliate parameter of the matched
\* partner keeps its original value in the rewritten URL, and no second value
\* is added for it.
C3_ExistingKeyKept ==
    (rpc # "start" /\ Recognized(url)) =>
        \A i \in 1..Len(RuleOf(url, env)) :
            LET k == RuleOf(url, env)[i].key
            IN  k \in DictKeys(QueryOf(url)) =>
                    /\ IsUrl(out1.val)
                    /\ k \in DictKeys(QueryOf(out1.val))
                    /\ DictGet(QueryOf(out1.val), k) = <<DictGet(QueryOf(url), k)[1]>>

C3_Witness ==
    /\ rpc = "once"
    /\ IsUrl(url)
    /\ url.netloc = <<"www", ".", "viator", ".", "com">>
    /\ url.query = <<Field(<<"aid">>, <<"u1">>)>>
    /\ env["VIATOR_AFFILIATE_ID"] = EnvVal(<<"k", " ", "1">>)
    /\ out1.val.query = <<Field(<<"aid">>, <<"u1">>), Field(<<"mcid">>, <<"cruise-planner-app">>)>>

\* C4: on a recognized domain the keys added are exactly the parameters of
\* the partner rule whose value is non-empty and not only whitespace and
\* whose name is not yet a key of the URL, each with its configured value.
C4_AddedKeysExact ==
    (rpc # "start" /\ Recognized(url)) =>
        LET rule == RuleOf(url, env)
            due == {i \in 1..Len(rule) :
                        /\ rule[i].val # <<>>
                        /\ ~Blank(rule[i].val)
                        /\ rule[i].key \notin DictKeys(QueryOf(url))}
        IN  /\ ~out1.raised
            /\ IsUrl(out1.val)
            /\ DictKeys(QueryOf(out1.val)) \ DictKeys(QueryOf(url)) = {rule[i].key : i \in due}
            /\ \A i \in due : DictGet(QueryOf(out1.val), rule[i].key) = <<rule[i].val>>

C4_Witness ==
    /\ rpc = "once"
    /\ IsUrl(url)
    /\ url.netloc = <<"viator", ".", "com">>
    /\ url.query = <<>>
    /\ env["VIATOR_AFFILIATE_ID"] = EnvVal(<<"k", " ", "1">>)
    /\ out1.val.query = <<Field(<<"aid">>, <<"k", "+", "1">>),
                          Field(<<"mcid">>, <<"cruise-planner-app">>)>>

\* C5: on a recognized partner domain whose affiliate id is not configured
\* (variable unset or empty) the URL is returned unchanged.
C5_UnconfiguredUnchanged ==
    (rpc # "start" /\ IsUrl(url) /\ OnDomain(url, <<"viator", ".", "com">>)
        /\ env["VIATOR_AFFILIATE_ID"] \in {Unset, EnvVal(<<>>)})
    => out1.val = url

C7_NeverRaises ==
    /\ rpc # "start" => (~out1.raised /\ (out1.val = url \/ (IsUrl(url) /\ IsUrl(out1.val))))
    /\ rpc = "twice" => (~out2.raised /\ (out2.val = out1.val \/ IsUrl(out2.val)))

C7_Witness ==
    /\ rpc = "once"
    /\ url = PyStrMalformed
    /\ ~out1.raised
    /\ out1.val = url

----------------------------------------------------------------------------
(* Properties of process_plan_activities.                                  *)

Returned == apc = "done" /\ ~ares.raised

\* The dict an item of a list names, on heap h.
DictOf(h, item) == h[item.ref]

\* C8: process_plan_activities does not mutate its input: after the call the
\* input list and every activity dict in it are what they were before, also
\* when the returned activities carry rewritten URLs.
C8_InputNotMutated ==
    apc = "done" =>
        /\ Len(heap) >= Len(heap0)
        /\ \A r \in 1..Len(heap0) : heap[r] = heap0[r]
        /\ acts.type = "list" =>
               \A i \in 1..Len(acts.items) :
                   acts.items[i].type = "dict" => acts.items[i].ref \in 1..Len(heap0)

C8_Witness ==
    /\ Returned
    /\ acts.type = "list"
    /\ Len(acts.items) = 2
    /\ ares.val.type = "list"
    /\ \E i \in 1..2 :
          /\ acts.items[i].type = "dict"
          /\ "booking_url" \in DOMAIN DictOf(heap0, acts.items[i])
          /\ DictOf(heap, ares.val.items[i])["booking_url"]
                # DictOf(heap0, acts.items[i])["booking_url"]
          /\ DictOf(heap, acts.items[i]) = DictOf(heap0, acts.items[i])

\* C9: the list that leaves the rewrite step has the length and the sequence
\* of the list of the provider output; every activity keeps its "order" and
\* every field other than booking_url; nothing is reordered, dropped, added.
C9_SequencePreserved ==
    (Returned /\ acts.type = "list") =>
        /\ ares.val.type = "list"
        /\ Len(ares.val.items) = Len(acts.items)
        /\ \A i \in 1..Len(acts.items) :
              LET a == acts.items[i]
                  b == ares.val.items[i]
              IN  IF a.type = "dict"
                  THEN /\ b.type = "dict"
                       /\ DOMAIN DictOf(heap, b) = DOMAIN DictOf(heap0, a)
                       /\ \A k \in DOMAIN DictOf(heap0, a) \ {"booking_url"} :
                              DictOf(heap, b)[k] = DictOf(heap0, a)[k]
                  ELSE b = a

C9_Witness ==
    /\ Returned
    /\ acts.type = "list"
    /\ Len(acts.items) = 2
    /\ acts.items[1].type = "dict"
    /\ acts.items[2].type = "dict"
    /\ DictOf(heap0, acts.items[1])["order"] = PyInt(2)
    /\ DictOf(heap0, acts.items[2])["order"] = PyInt(1)
    /\ DictOf(heap, ares.val.items[1])["order"] = PyInt(2)
    /\ DictOf(heap, ares.val.items[2])["order"] = PyInt(1)
    /\ "booking_url" \in DOMAIN DictOf(heap0, acts.items[1])
    /\ DictOf(heap, ares.val.items[1])["booking_url"] # DictOf(heap0, acts.items[1])["booking_url"]


----------------------------------------------------------------------------
(* backend/dynamodb_client.py: the table holds the trip items by trip id    *)
(* and the plan items.                                                      *)

MaxTrips == 2
MaxPorts == 1

Devices == {"devA", "devB"}

\* The workers of the server: each handles one request at a time.
Workers == {"w1", "w2"}

TripItem(device_id) ==
    [exists |-> TRUE, device_id |-> device_id, ship_name |-> <<"Aurora">>, ports |-> <<>>]
PortItem(port_id, name) == [port_id |-> port_id, name |-> name]

\* table.get_item(Key = TRIP#trip_id): the item, or NoTrip when there is none
GetItem(table, trip_id) ==
    IF trip_id \in DOMAIN table THEN table[trip_id] ELSE NoTrip

\* get_trip that returns the item whoever owns it.
GetTrip_AnyDevice(table, trip_id, device_id) ==
    LET item == GetItem(table, trip_id)
    IN  IF item.exists THEN item ELSE PyNone

\* DynamoDBClient.get_trip: the item when it exists and is owned by device_id,
\* else None.
GetTrip(table, trip_id, device_id) ==
    LET item == GetItem(table, trip_id)
    IN  IF item.exists /\ item.device_id = device_id THEN item ELSE PyNone

IsNone(v) == "type" \in DOMAIN v /\ v.type = "NoneType"

\* next((p for p in trip["ports"] if p["port_id"] == port_id), None)
FindPort(ports, port_id) ==
    LET hits == {i \in 1..Len(ports) : ports[i].port_id = port_id}
    IN  IF hits = {} THEN PyNone
        ELSE ports[CHOOSE i \in hits : \A j \in hits : i <= j]

\* DynamoDBClient.list_trips: the trips of the device, newest first.
RECURSIVE ListTrips(_, _)
ListTrips(table, device_id) ==
    IF table = <<>> THEN <<>>
    ELSE LET item == table[Len(table)]
             older == ListTrips(SubSeq(table, 1, Len(table) - 1), device_id)
         IN  IF item.exists /\ item.device_id = device_id
             THEN <<item>> \o older ELSE older

\* DynamoDBClient.update_trip: the fields of updates are set in the item when
\* it exists and is owned by device_id; the table after the call, and the
\* new item or None.
UpdateTrip(table, trip_id, device_id, updates) ==
    LET existing == GetTrip(table, trip_id, device_id)
    IN  IF IsNone(existing) THEN [table |-> table, val |-> PyNone]
        ELSE LET item == [f \in DOMAIN existing |->
                             IF f \in DOMAIN updates THEN updates[f] ELSE existing[f]]
             IN  [table |-> [table EXCEPT ![trip_id] = item], val |-> item]

\* DynamoDBClient.delete_trip: the item is deleted when it exists and is
\* owned by device_id; the table after the call, and True or False.
DeleteTrip(table, trip_id, device_id) ==
    IF IsNone(GetTrip(table, trip_id, device_id)) THEN [table |-> table, val |-> FALSE]
    ELSE [table |-> [table EXCEPT ![trip_id] = NoTrip], val |-> TRUE]

\* DynamoDBClient.get_plan: the plan when it exists and is owned by device_id
GetPlan(table, plan_id, device_id) ==
    LET hits == {i \in 1..Len(table) :
                    table[i].plan_id = plan_id /\ table[i].device_id = device_id}
    IN  IF hits = {} THEN PyNone ELSE table[CHOOSE i \in hits : TRUE]

\* table.delete_item(Key = PLAN#plan_id)
DeleteItem(table, plan_id) == SelectSeq(table, LAMBDA p : p.plan_id # plan_id)

\* DynamoDBClient.delete_plan
DeletePlan(table, plan_id, device_id) ==
    IF IsNone(GetPlan(table, plan_id, device_id)) THEN [table |-> table, val |-> FALSE]
    ELSE [table |-> DeleteItem(table, plan_id), val |-> TRUE]

\* table.scan(FilterExpression): the keys of the plans whose attribute has
\* the value, whatever device owns them.
ScanPlans(table, attribute, value) ==
    LET hits == SelectSeq(table, LAMBDA p : p[attribute] = value)
    IN  [i \in 1..Len(hits) |-> hits[i].plan_id]


----------------------------------------------------------------------------
(* backend/server.py, the trip, port and plan handlers.  A request is held  *)
(* by a worker from the call of the handler to its response; a step of a    *)
(* handler ends with a call to the table, so that the calls of two          *)
(* requests interleave.                                                     *)

NoBody == [kind |-> "none"]
TripBody(trip) == [kind |-> "trip", trip |-> trip]
TripsBody(items) == [kind |-> "trips", trips |-> items]
PortBody(port) == [kind |-> "port", port |-> port]
Message(message) == [kind |-> "message", message |-> message]
Removed(message, count) ==
    [kind |-> "removed", message |-> message, deleted_plans |-> count]

NoAnswer == [status |-> 0, error |-> "pending", body |-> NoBody]
Ok(body) == [status |-> 200, error |-> "none", body |-> body]
Fail(status, error) == [status |-> status, error |-> error, body |-> NoBody]

NoBefore == [trip |-> NoTrip, plans |-> <<>>]

\* A worker with no request, and the request a handler was called with.
NoRequest ==
    [op |-> "none", pc |-> "idle", trip_id |-> 0, port_id |-> 0, plan_id |-> 0,
     device_id |-> "none",
     ports |-> <<>>,          \* ports, the list the handler writes back
     found |-> FALSE,         \* the port of the request was in the trip
     updated |-> NoValue,     \* what db_client.update_trip returned
     items |-> <<>>,          \* the keys of the scan not yet deleted
     deleted_count |-> 0,     \* deleted_count
     warnings |-> 0,          \* the deletes that failed and were only logged
     before |-> NoBefore,     \* the trip and its plans when delete_trip began
     out |-> NoAnswer]

Request(op, trip_id, port_id, plan_id, device_id) ==
    [NoRequest EXCEPT !.op = op, !.pc = "start", !.trip_id = trip_id,
                      !.port_id = port_id, !.plan_id = plan_id, !.device_id = device_id]

\* The request after its response: what it was, what it logged and returned.
Done(r, out) ==
    [r EXCEPT !.pc = "done", !.ports = <<>>, !.items = <<>>, !.before = NoBefore,
              !.out = out]

Free(w) == reqs[w].pc \in {"idle", "done"}
At(w, op, pc) == reqs[w].op = op /\ reqs[w].pc = pc

\* What goes wrong in the first step of a handler: nothing, the ping of
\* check_db_connection raises, or the call to the table raises.
Faults == {"none", "ping", "call"}

\* check_db_connection: the error it raises, or "ok"
CheckDb(ping_ok) ==
    IF db_client = "none" THEN "database_unavailable"
    ELSE IF ~ping_ok THEN "database_connection_lost"
    ELSE "ok"

serverVars == <<env, heap, rewriteVars, actVars, groq_key, db_client, runVars>>

\* create_trip: a trip with a new id and no ports is put for the device.
CreateTrip(device_id) ==
    /\ gpc # "off"
    /\ db_client = "client"
    /\ ids' = [ids EXCEPT !.trip = @ + 1]
    /\ trips' = Append(trips, TripItem(device_id))
    /\ UNCHANGED <<serverVars, plans, reqs>>

\* get_trip
GetTripReq(w, trip_id, device_id) ==
    /\ gpc # "off"
    /\ Free(w)
    /\ \E fault \in Faults :
          LET ping_ok == fault # "ping"
              ok == fault # "call"
              r == Request("get_trip", trip_id, 0, 0, device_id)
              trip == GetTrip(trips, trip_id, device_id)
          IN  reqs' = [reqs EXCEPT ![w] =
                  IF CheckDb(ping_ok) # "ok" THEN Done(r, Fail(503, CheckDb(ping_ok)))
                  ELSE IF ~ok THEN Done(r, Fail(500, "trip_retrieval_failed"))
                  ELSE IF IsNone(trip) THEN Done(r, Fail(404, "trip_not_found"))
                  ELSE Done(r, Ok(TripBody(trip)))]
    /\ UNCHANGED <<serverVars, storeVars>>

\* list_trips
ListTripsReq(w, device_id) ==
    /\ gpc # "off"
    /\ Free(w)
    /\ \E fault \in Faults :
          LET ping_ok == fault # "ping"
              ok == fault # "call"
              r == Request("list_trips", 0, 0, 0, device_id)
          IN  reqs' = [reqs EXCEPT ![w] =
                  IF CheckDb(ping_ok) # "ok" THEN Done(r, Fail(503, CheckDb(ping_ok)))
                  ELSE IF ~ok THEN Done(r, Fail(500, "trip_list_failed"))
                  ELSE Done(r, Ok(TripsBody(ListTrips(trips, device_id))))]
    /\ UNCHANGED <<serverVars, storeVars>>

\* update_trip: the ship is renamed.
UpdateTripReq(w, trip_id, device_id) ==
    /\ gpc # "off"
    /\ Free(w)
    /\ \E fault \in Faults :
          LET ping_ok == fault # "ping"
              ok == fault # "call"
              r == Request("update_trip", trip_id, 0, 0, device_id)
              u == UpdateTrip(trips, trip_id, device_id, [ship_name |-> <<"Borealis">>])
          IN  IF CheckDb(ping_ok) # "ok"
              THEN /\ reqs' = [reqs EXCEPT ![w] = Done(r, Fail(503, CheckDb(ping_ok)))]
                   /\ UNCHANGED trips
              ELSE IF ~ok
              THEN /\ reqs' = [reqs EXCEPT ![w] = Done(r, Fail(500, "trip_update_failed"))]
                   /\ UNCHANGED trips
              ELSE /\ trips' = u.table
                   /\ reqs' = [reqs EXCEPT ![w] =
                          IF IsNone(u.val)
                          THEN Done([r EXCEPT !.updated = u.val], Fail(404, "trip_not_found"))
                          ELSE Done([r EXCEPT !.updated = u.val], Ok(TripBody(u.val)))]
    /\ UNCHANGED <<serverVars, ids, plans>>

\* The first step of the port handlers: the database check and get_trip.
\* It gives the response when the handler ends here, else the trip.
ReadTrip(r, ping_ok, ok, error) ==
    LET trip == GetTrip(trips, r.trip_id, r.device_id)
    IN  IF CheckDb(ping_ok) # "ok"
        THEN [ended |-> TRUE, out |-> Fail(503, CheckDb(ping_ok))]
        ELSE IF ~ok THEN [ended |-> TRUE, out |-> Fail(500, error)]
        ELSE IF IsNone(trip) THEN [ended |-> TRUE, out |-> Fail(404, "trip_not_found")]
        ELSE [ended |-> FALSE, trip |-> trip]

\* add_port, to the call of update_trip: the trip is read and a port with a
\* new id is put at the end of its ports.
AddPort_Start(w, trip_id, device_id) ==
    /\ gpc # "off"
    /\ Free(w)
    /\ \E fault \in Faults :
          LET ping_ok == fault # "ping"
              ok == fault # "call"
              r == Request("add_port", trip_id, 0, 0, device_id)
              read == ReadTrip(r, ping_ok, ok, "port_addition_failed")
          IN  IF read.ended
              THEN /\ reqs' = [reqs EXCEPT ![w] = Done(r, read.out)]
                   /\ UNCHANGED ids
              ELSE LET port == PortItem(ids.port + 1, <<"Nassau">>)
                   IN  /\ ids' = [ids EXCEPT !.port = @ + 1]
                       /\ reqs' = [reqs EXCEPT ![w] =
                              [r EXCEPT !.pc = "update_trip", !.port_id = port.port_id,
                                        !.ports = Append(read.trip.ports, port)]]
    /\ UNCHANGED <<serverVars, trips, plans>>

\* update_port, to the call of update_trip: the port of the request is
\* replaced in the ports of the trip as read.
UpdatePort_Start(w, trip_id, port_id, device_id) ==
    /\ gpc # "off"
    /\ Free(w)
    /\ \E fault \in Faults :
          LET ping_ok == fault # "ping"
              ok == fault # "call"
              r == Request("update_port", trip_id, port_id, 0, device_id)
              read == ReadTrip(r, ping_ok, ok, "port_update_failed")
          IN  reqs' = [reqs EXCEPT ![w] =
                  IF read.ended THEN Done(r, read.out)
                  ELSE IF IsNone(FindPort(read.trip.ports, port_id))
                  THEN Done(r, Fail(404, "port_not_found"))
                  ELSE LET hit == CHOOSE i \in 1..Len(read.trip.ports) :
                                      /\ read.trip.ports[i].port_id = port_id
                                      /\ \A j \in 1..(i - 1) :
                                            read.trip.ports[j].port_id # port_id
                       IN  [r EXCEPT !.pc = "update_trip", !.found = TRUE,
                                     !.ports = [read.trip.ports EXCEPT
                                                   ![hit] = PortItem(port_id, <<"Cozumel">>)]]]
    /\ UNCHANGED <<serverVars, storeVars>>

\* A delete_port that answers 404 when the port is not in the trip, as
\* update_port does.
WithoutPort_Strict(r, trip_ports) ==
    LET ports == SelectSeq(trip_ports, LAMBDA p : p.port_id # r.port_id)
    IN  IF Len(ports) = Len(trip_ports) THEN Done(r, Fail(404, "port_not_found"))
        ELSE [r EXCEPT !.pc = "update_trip", !.found = TRUE, !.ports = ports]

\* "Remove port from ports list": the request with the ports it will write;
\* a port that was not in the list is only logged.
WithoutPort(r, trip_ports) ==
    LET ports == SelectSeq(trip_ports, LAMBDA p : p.port_id # r.port_id)
    IN  [r EXCEPT !.pc = "update_trip", !.found = Len(ports) # Len(trip_ports),
                  !.ports = ports]

\* delete_port, to the call of update_trip: the ports of the trip as read
\* without the port of the request.
DeletePort_Start(w, trip_id, port_id, device_id) ==
    /\ gpc # "off"
    /\ Free(w)
    /\ \E fault \in Faults :
          LET ping_ok == fault # "ping"
              ok == fault # "call"
              r == Request("delete_port", trip_id, port_id, 0, device_id)
              read == ReadTrip(r, ping_ok, ok, "port_deletion_failed")
          IN  reqs' = [reqs EXCEPT ![w] =
                  IF read.ended THEN Done(r, read.out)
                  ELSE WithoutPort(r, read.trip.ports)]
    /\ UNCHANGED <<serverVars, storeVars>>

\* db_client.update_trip(trip_id, x_device_id, {"ports": ports}) in a port
\* handler: the ports of the request are written when the trip is still
\* there; the call raises, or returns the new item or None.
WritePorts(r, ok) ==
    IF ~ok THEN [raised |-> TRUE, table |-> trips, val |-> PyNone]
    ELSE LET u == UpdateTrip(trips, r.trip_id, r.device_id, [ports |-> r.ports])
         IN  [raised |-> FALSE, table |-> u.table, val |-> u.val]

\* add_port, the call of update_trip and the return of the port; what
\* update_trip returned is not looked at.
AddPort_Update(w) ==
    /\ At(w, "add_port", "update_trip")
    /\ \E ok \in BOOLEAN : \E u \in {WritePorts(reqs[w], ok)} :
          /\ trips' = u.table
          /\ reqs' = [reqs EXCEPT ![w] =
                 IF u.raised THEN Done(@, Fail(500, "port_addition_failed"))
                 ELSE Done([@ EXCEPT !.updated = u.val],
                           Ok(PortBody(@.ports[Len(@.ports)])))]
    /\ UNCHANGED <<serverVars, ids, plans>>

\* update_port, the call of update_trip and the return
UpdatePort_Update(w) ==
    /\ At(w, "update_port", "update_trip")
    /\ \E ok \in BOOLEAN : \E u \in {WritePorts(reqs[w], ok)} :
          /\ trips' = u.table
          /\ reqs' = [reqs EXCEPT ![w] =
                 IF u.raised THEN Done(@, Fail(500, "port_update_failed"))
                 ELSE Done([@ EXCEPT !.updated = u.val], Ok(Message("Port updated")))]
    /\ UNCHANGED <<serverVars, ids, plans>>

\* delete_port, the call of update_trip; the handler goes on to the plans
\* of the port whatever update_trip returned.
DeletePort_Update(w) ==
    /\ At(w, "delete_port", "update_trip")
    /\ \E ok \in BOOLEAN : \E u \in {WritePorts(reqs[w], ok)} :
          /\ trips' = u.table
          /\ reqs' = [reqs EXCEPT ![w] =
                 IF u.raised THEN Done(@, Fail(500, "port_deletion_failed"))
                 ELSE [@ EXCEPT !.updated = u.val, !.pc = "scan"]]
    /\ UNCHANGED <<serverVars, ids, plans>>

\* delete_trip, to the scan of its plans: the trip is deleted when the
\* device owns it.
DeleteTrip_Start(w, trip_id, device_id) ==
    /\ gpc # "off"
    /\ Free(w)
    /\ \E fault \in Faults :
          LET ping_ok == fault # "ping"
              ok == fault # "call"
              r == Request("delete_trip", trip_id, 0, 0, device_id)
              d == DeleteTrip(trips, trip_id, device_id)
          IN  IF CheckDb(ping_ok) # "ok"
              THEN /\ reqs' = [reqs EXCEPT ![w] = Done(r, Fail(503, CheckDb(ping_ok)))]
                   /\ UNCHANGED trips
              ELSE IF ~ok
              THEN /\ reqs' = [reqs EXCEPT ![w] = Done(r, Fail(500, "trip_deletion_failed"))]
                   /\ UNCHANGED trips
              ELSE IF ~d.val
              THEN /\ reqs' = [reqs EXCEPT ![w] = Done(r, Fail(404, "trip_not_found"))]
                   /\ UNCHANGED trips
              ELSE /\ trips' = d.table
                   /\ reqs' = [reqs EXCEPT ![w] =
                          [r EXCEPT !.pc = "scan",
                                    !.before = [trip |-> GetItem(trips, trip_id),
                                                plans |-> SelectSeq(plans,
                                                    LAMBDA p : p.trip_id = trip_id)]]]
    /\ UNCHANGED <<serverVars, ids, plans>>

\* What delete_port and delete_trip return after the plans were deleted.
Cascaded(r) ==
    IF r.op = "delete_port" THEN Ok(Removed("Port removed", r.deleted_count))
    ELSE Ok(Removed("Trip deleted", r.deleted_count))

\* The scan of delete_plans_by_port and delete_plans_by_trip: with the keys
\* of the plans the loop begins; with no plan the handler returns.
Scanned(r, ok, items, error) ==
    IF ~ok THEN Done(r, Fail(500, error))
    ELSE IF items = <<>> THEN Done(r, Cascaded(r))
    ELSE [r EXCEPT !.pc = "delete_item", !.items = items]

\* delete_port, the scan of delete_plans_by_port: the plans of the port,
\* whatever device owns them.
DeletePort_Scan(w) ==
    /\ At(w, "delete_port", "scan")
    /\ \E ok \in BOOLEAN :
          reqs' = [reqs EXCEPT ![w] =
              Scanned(@, ok, ScanPlans(plans, "port_id", @.port_id), "port_deletion_failed")]
    /\ UNCHANGED <<serverVars, storeVars>>

\* delete_trip, the scan of delete_plans_by_trip
DeleteTrip_Scan(w) ==
    /\ At(w, "delete_trip", "scan")
    /\ \E ok \in BOOLEAN :
          reqs' = [reqs EXCEPT ![w] =
              Scanned(@, ok, ScanPlans(plans, "trip_id", @.trip_id), "trip_deletion_failed")]
    /\ UNCHANGED <<serverVars, storeVars>>

\* One turn of the loop of delete_plans_by_port and delete_plans_by_trip: the
\* next plan is deleted by its key; a delete that raises is logged and the
\* loop goes on.  After the last plan the handler returns.
Plans_Delete(w) ==
    /\ reqs[w].pc = "delete_item"
    /\ \E ok \in BOOLEAN :
          LET r == reqs[w]
              next == [r EXCEPT !.items = Tail(r.items),
                                !.deleted_count = IF ok THEN @ + 1 ELSE @,
                                !.warnings = IF ok THEN @ ELSE @ + 1]
          IN  /\ plans' = IF ok THEN DeleteItem(plans, Head(r.items)) ELSE plans
              /\ reqs' = [reqs EXCEPT ![w] =
                     IF next.items = <<>> THEN Done(next, Cascaded(next)) ELSE next]
    /\ UNCHANGED <<serverVars, ids, trips>>

\* delete_plan
DeletePlanReq(w, plan_id, device_id) ==
    /\ gpc # "off"
    /\ Free(w)
    /\ \E fault \in Faults :
          LET ping_ok == fault # "ping"
              ok == fault # "call"
              r == Request("delete_plan", 0, 0, plan_id, device_id)
              d == DeletePlan(plans, plan_id, device_id)
          IN  IF CheckDb(ping_ok) # "ok"
              THEN /\ reqs' = [reqs EXCEPT ![w] = Done(r, Fail(503, CheckDb(ping_ok)))]
                   /\ UNCHANGED plans
              ELSE IF ~ok
              THEN /\ reqs' = [reqs EXCEPT ![w] = Done(r, Fail(500, "plan_deletion_failed"))]
                   /\ UNCHANGED plans
              ELSE /\ plans' = d.table
                   /\ reqs' = [reqs EXCEPT ![w] =
                          IF d.val THEN Done(r, Ok(Message("Plan deleted")))
                          ELSE Done(r, Fail(404, "plan_not_found"))]
    /\ UNCHANGED <<serverVars, ids, trips>>


----------------------------------------------------------------------------
(* backend/server.py, generate_plan: one run, a step for each call it makes *)
(* to the table or to a provider.                                           *)

Currencies == {<<>>, <<"EUR">>}

Call(op, arg, ok) == [op |-> op, arg |-> arg, ok |-> ok]

\* An HTTPException(status_code, detail = {"error": error, ...}), and the
\* answer of the framework to an exception no handler catches.
Failure(status, error) ==
    [status |-> status, error |-> error, retry_after |-> PyNone, plan |-> NoValue]
Unhandled(exc) == Failure(500, "internal_server_error")
Success(plan) == [status |-> 200, error |-> "none", retry_after |-> PyNone, plan |-> plan]

Object(items) == [type |-> "object", items |-> items]

EndRun(response) ==
    /\ gpc' = "done"
    /\ gout' = response

\* check_db_connection, on entry of the handler
GP_Start(trip_id, port_id, device_id, currency) ==
    /\ gpc = "idle"
    /\ greq' = [trip_id |-> trip_id, port_id |-> port_id, device_id |-> device_id,
                currency |-> currency]
    /\ IF db_client = "none"
       THEN /\ EndRun(Failure(503, "database_unavailable"))
            /\ UNCHANGED gcalls
       ELSE \E ok \in BOOLEAN :
               /\ gcalls' = Append(gcalls, Call("ping", <<>>, ok))
               /\ IF ok THEN gpc' = "fetch_context" /\ UNCHANGED gout
                  ELSE EndRun(Failure(503, "database_connection_lost"))
    /\ UNCHANGED <<env, heap, rewriteVars, actVars, groq_key, reqs, storeVars,
                   gtrip, gport, gweather, gprompt, gtext, gplan, gerr>>

\* raise HTTPException(404, error)
ContextMissing(error) == EndRun(Failure(404, error))

\* "Fetch trip and port data"
GP_FetchContext ==
    /\ gpc = "fetch_context"
    /\ \E ok \in BOOLEAN :
          /\ gcalls' = Append(gcalls, Call("get_item", greq.trip_id, ok))
          /\ IF ~ok
             THEN /\ EndRun(Failure(500, "data_fetch_failed"))
                  /\ UNCHANGED <<gtrip, gport>>
             ELSE LET trip == GetTrip(trips, greq.trip_id, greq.device_id)
                      port == IF IsNone(trip) THEN PyNone
                              ELSE FindPort(trip.ports, greq.port_id)
                  IN  /\ gtrip' = trip
                      /\ gport' = port
                      /\ IF IsNone(trip) THEN ContextMissing("trip_not_found")
                         ELSE IF IsNone(port) THEN ContextMissing("port_not_found")
                         ELSE gpc' = "fetch_weather" /\ UNCHANGED gout
    /\ UNCHANGED <<env, heap, rewriteVars, actVars, groq_key, reqs, storeVars,
                   greq, gweather, gprompt, gtext, gplan, gerr>>


\* The answers of the weather provider: the request raises (a timeout, a
\* transport error), or a response arrives with a status and a body that is
\* a JSON document or is none.
NotJson == [type |-> "invalid"]
Temps(items) == [type |-> "list", items |-> items]
DailyKeys == {"temperature_2m_min", "temperature_2m_max", "precipitation_sum",
              "windspeed_10m_max"}

WeatherBodies == {
    NotJson,
    PyNone,
    PyInt(5),
    Object(<<>>),
    Object([daily |-> PyNone]),
    Object([daily |-> Object([k \in DailyKeys |-> Temps(<<PyInt(12)>>)])]),
    Object([daily |-> Object([k \in DailyKeys |->
                IF k = "windspeed_10m_max" THEN Temps(<<>>) ELSE Temps(<<PyInt(12)>>)])]) }

WeatherAnswers ==
    {[raised |-> TRUE, status |-> 0, body |-> NotJson]}
    \cup {[raised |-> FALSE, status |-> 500, body |-> NotJson]}
    \cup {[raised |-> FALSE, status |-> 200, body |-> b] : b \in WeatherBodies}

\* weather_data after the try block: the body of a 200 response that is
\* JSON, else None.
WeatherData(answer) ==
    IF answer.raised THEN PyNone
    ELSE IF answer.status = 200
         THEN IF answer.body = NotJson THEN PyNone ELSE answer.body
         ELSE PyNone

\* "Fetch weather data (non-blocking)"
GP_FetchWeather ==
    /\ gpc = "fetch_weather"
    /\ \E answer \in WeatherAnswers :
          /\ gcalls' = Append(gcalls, Call("weather_get", gport.port_id, ~answer.raised))
          /\ gweather' = WeatherData(answer)
    /\ gpc' = "build_prompt"
    /\ UNCHANGED <<env, heap, rewriteVars, actVars, groq_key, reqs, storeVars,
                   greq, gtrip, gport, gprompt, gtext, gplan, gout, gerr>>

\* str(v) inside an f-string
Format(v) ==
    CASE v.type = "int" -> <<ToString(v.n)>>
      [] v.type = "str" -> v.text
      [] OTHER          -> <<"None">>

\* key in v
Contains(v, key) ==
    CASE v.type = "object" -> Return(key \in DOMAIN v.items)
      [] v.type = "list"   -> Return(FALSE)
      [] v.type = "str"    -> Return(v.form = "text" /\ \E i \in 1..Len(v.text) : v.text[i] = key)
      [] OTHER             -> Raise("TypeError")

\* d.get(key, ["?"])[0]
FirstOf(d, key) ==
    IF d.type # "object" THEN Raise("AttributeError")
    ELSE LET v == IF key \in DOMAIN d.items THEN d.items[key]
                  ELSE Temps(<<[type |-> "str", form |-> "text", text |-> <<"?">>]>>)
         IN  IF v.items = <<>> THEN Raise("IndexError") ELSE Return(v.items[1])

Unavailable == <<"Weather data unavailable.">>

\* weather_summary
WeatherSummary(weather_data) ==
    IF ~Truthy(weather_data) THEN Return(Unavailable)
    ELSE LET has == Contains(weather_data, "daily")
         IN  IF has.raised THEN has
             ELSE IF ~has.val THEN Return(Unavailable)
             ELSE LET d == weather_data.items["daily"]
                      temp_min == FirstOf(d, "temperature_2m_min")
                      temp_max == FirstOf(d, "temperature_2m_max")
                      precip == FirstOf(d, "precipitation_sum")
                      wind == FirstOf(d, "windspeed_10m_max")
                  IN  IF temp_min.raised THEN temp_min
                      ELSE IF temp_max.raised THEN temp_max
                      ELSE IF precip.raised THEN precip
                      ELSE IF wind.raised THEN wind
                      ELSE Return(<<"Temperature: ">> \o Format(temp_min.val)
                                  \o <<"C - ">> \o Format(temp_max.val)
                                  \o <<"C, Precipitation: ">> \o Format(precip.val)
                                  \o <<"mm, Wind: ">> \o Format(wind.val)
                                  \o <<"km/h">>)

\* A pipeline that always asks for the default currency.
Currency_Default(prefs_currency) == <<"GBP">>

\* prefs.currency or "GBP"
Currency(prefs_currency) == IF prefs_currency = <<>> THEN <<"GBP">> ELSE prefs_currency

\* The prompt, by the parts of it that vary: the weather forecast line, the
\* preferred currency line and the three cost rules.
Prompt(weather_summary, currency) ==
    <<"- Weather forecast: ">> \o weather_summary
    \o <<"- Preferred currency: ">> \o currency
    \o <<"6. ALL cost estimates must be shown in ">> \o currency
    \o <<" - use the ">> \o currency \o <<" symbol/code">>
    \o <<"7. The total_estimated_cost must also be in ">> \o currency
    \o <<"total_estimated_cost: estimated total cost per person in ">> \o currency
    \o <<"cost_estimate: e.g. Free, ~">> \o currency \o <<" 8">>

\* weather_summary and prompt
GP_BuildPrompt ==
    /\ gpc = "build_prompt"
    /\ LET weather_summary == WeatherSummary(gweather)
       IN  IF weather_summary.raised
           THEN EndRun(Unhandled(weather_summary.exc)) /\ UNCHANGED gprompt
           ELSE /\ gprompt' = Prompt(weather_summary.val, Currency(greq.currency))
                /\ gpc' = "init_llm"
                /\ UNCHANGED gout
    /\ UNCHANGED <<env, heap, rewriteVars, actVars, groq_key, reqs, storeVars,
                   greq, gtrip, gport, gweather, gtext, gplan, gcalls, gerr>>


----------------------------------------------------------------------------
(* backend/llm_client.py                                                    *)

GroqKeys == {Unset, EnvVal(<<>>), EnvVal(<<"gsk_1">>)}

\* A constructor that takes whatever key there is and never raises.
LLMClientInit_Unchecked(key) == Return(IF key.set THEN key.s ELSE <<>>)

\* LLMClient(): the key is read from the environment; without one the
\* constructor raises ValueError.
LLMClientInit(key) ==
    LET api_key == IF key.set THEN key.s ELSE <<>>
    IN  IF api_key = <<>> THEN Raise("ValueError") ELSE Return(api_key)

\* keyword in error_msg
InText(keyword, text) == \E i \in 1..Len(text) : text[i] = keyword

\* The classification with the authentication keywords looked for first.
Classify_AuthFirst(message) ==
    LET error_msg == Lower(message)
    IN  IF \/ InText("api key", error_msg)
           \/ InText("authentication", error_msg)
           \/ InText("401", error_msg)
           \/ InText("unauthorized", error_msg)
        THEN "LLMAuthenticationError"
        ELSE IF InText("rate_limit", error_msg) \/ InText("quota", error_msg)
        THEN "LLMQuotaExceededError"
        ELSE "LLMAPIError"

\* The except branch of generate_day_plan: the class of the error raised for
\* a provider exception with the given message.
Classify(message) ==
    LET error_msg == Lower(message)
    IN  IF InText("rate_limit", error_msg) \/ InText("quota", error_msg)
        THEN "LLMQuotaExceededError"
        ELSE IF \/ InText("api key", error_msg)
                \/ InText("authentication", error_msg)
                \/ InText("401", error_msg)
                \/ InText("unauthorized", error_msg)
        THEN "LLMAuthenticationError"
        ELSE "LLMAPIError"

\* What chat.completions.create does: it raises with a message, or answers
\* with a message content that is a text or None.
ProviderMessages == {
    <<"Rate_Limit", " reached">>,
    <<"Quota", " exceeded for ", "API Key">>,
    <<"Invalid ", "API Key">>,
    <<"Error code: ", "401">>,
    <<"Unauthorized">>,
    <<"Authentication", " failed">>,
    <<"Unauthorized", ": ", "Rate_Limit">>,
    <<"401", " ", "quota">>,
    <<"Connection timeout">>,
    <<>> }

\* generate_day_plan: the content of the answer, or a classified error; a
\* content of None raises TypeError at len() inside the try.
NoLen == <<"object of type 'NoneType' has no len()">>

Error(exc, message) == [exc |-> exc, message |-> message]

GenerateDayPlan(answer) ==
    LET message == IF answer.raised THEN answer.message ELSE NoLen
    IN  IF answer.raised \/ answer.content = PyNone
        THEN [raised |-> TRUE, exc |-> Classify(message), message |-> message]
        ELSE Return(answer.content.text)

\* A cut that drops the fence marker only, leaving the rest of its line.
AfterFirstLine_FenceOnly(s) == Tail(s)

\* clean.split("\n", 1)[1]
AfterFirstLine(s) ==
    LET i == CHOOSE k \in 1..Len(s) : s[k] = "\n" /\ \A j \in 1..(k - 1) : s[j] # "\n"
    IN  SubSeq(s, i + 1, Len(s))

\* The marker of a markdown code fence, three backticks.
Fence == <<"[fence]">>

\* The text parse_json_response hands to json.loads.
CleanResponse(response_text) ==
    LET clean == Strip(response_text)
        unfenced ==
            IF StartsWith(clean, Fence)
            THEN LET body == IF InText("\n", clean) THEN AfterFirstLine(clean)
                             ELSE Tail(clean)
                     open == IF EndsWith(body, Fence)
                             THEN SubSeq(body, 1, Len(body) - 1) ELSE body
                 IN  Strip(open)
            ELSE clean
    IN  IF StartsWith(unfenced, <<"json", "\n">>)
        THEN Strip(SubSeq(unfenced, 3, Len(unfenced)))
        ELSE unfenced


\* The documents the provider may send, each a symbol of the text, and the
\* value json.loads reads from it; the activity dicts are allocated on the
\* heap.  Any other text is no JSON.
PlanActivities == <<
    [dict |-> [order |-> PyInt(1), name |-> PyText(<<"Tour">>),
               booking_url |-> ViatorUrl(<<>>)]],
    [dict |-> [order |-> PyInt(2), name |-> PyText(<<"Walk">>)]] >>

JsonDocs == {"{plan}", "{no_activities}", "{activities:null}", "{activities:[text]}",
             "5", "null", "[]", "\"text\"", "\"activities\""}

JsonValue(h, doc) ==
    CASE doc = "{plan}" ->
            LET a == Allocate(PlanActivities, h, <<>>)
            IN  [heap |-> a.heap,
                 val |-> Object([plan_title |-> PyText(<<"Day">>),
                                 activities |-> PyList(a.items)])]
      [] doc = "{no_activities}" ->
            [heap |-> h, val |-> Object([plan_title |-> PyText(<<"Day">>)])]
      [] doc = "{activities:null}" ->
            [heap |-> h, val |-> Object([activities |-> PyNone])]
      [] doc = "{activities:[text]}" ->
            [heap |-> h, val |-> Object([activities |-> PyList(<<PyText(<<"Tour">>)>>)])]
      [] doc = "5" -> [heap |-> h, val |-> PyInt(5)]
      [] doc = "null" -> [heap |-> h, val |-> PyNone]
      [] doc = "[]" -> [heap |-> h, val |-> PyEmptyList]
      [] doc = "\"text\"" -> [heap |-> h, val |-> PyText(<<"text">>)]
      [] doc = "\"activities\"" -> [heap |-> h, val |-> PyText(<<"activities">>)]

\* json.loads(clean): white space around the document is skipped.
JsonLoads(h, clean) ==
    LET doc == Strip(clean)
    IN  IF Len(doc) = 1 /\ doc[1] \in JsonDocs
        THEN LET v == JsonValue(h, doc[1])
             IN  [heap |-> v.heap, out |-> Return(v.val)]
        ELSE [heap |-> h, out |-> Raise("JSONDecodeError")]

\* LLMClient.parse_json_response
ParseJsonResponse(h, response_text) == JsonLoads(h, CleanResponse(response_text))

----------------------------------------------------------------------------
(* backend/server.py, generate_plan: the steps after the prompt.            *)

ResponseTexts == {
    <<"{plan}">>,
    Fence \o <<"json", "\n", "{plan}", "\n">> \o Fence,
    <<" ", "Here is the plan: ", "{plan}", "\n">>,
    <<"{activities:null}">>,
    <<"{activities:[text]}">>,
    <<"5">>, <<"null">>, <<"[]">>, <<"\"activities\"">> }

ProviderAnswers ==
    {[raised |-> TRUE, message |-> m, content |-> PyNone] : m \in ProviderMessages}
    \cup {[raised |-> FALSE, message |-> <<>>, content |-> PyNone]}
    \cup {[raised |-> FALSE, message |-> <<>>,
           content |-> [type |-> "str", form |-> "text", text |-> t]] : t \in ResponseTexts}

\* "Initialize LLM client"
GP_InitLLM ==
    /\ gpc = "init_llm"
    /\ IF LLMClientInit(groq_key).raised
       THEN /\ gerr' = Error("ValueError", <<"Groq API key not configured.">>)
            /\ EndRun(Failure(503, "ai_service_not_configured"))
       ELSE gpc' = "generate" /\ UNCHANGED <<gout, gerr>>
    /\ UNCHANGED <<env, heap, rewriteVars, actVars, groq_key, reqs, storeVars,
                   greq, gtrip, gport, gweather, gprompt, gtext, gplan, gcalls>>

\* The except clauses with the base class first: every LLM error is caught
\* as LLMAPIError.
GenerationFailure_BaseFirst(exc) == Failure(503, "ai_service_unavailable")

\* The HTTPException raised for each class of error of generate_day_plan.
GenerationFailure(exc) ==
    CASE exc = "LLMQuotaExceededError" ->
            [Failure(503, "ai_service_quota_exceeded") EXCEPT !.retry_after = PyInt(300)]
      [] exc = "LLMAuthenticationError" -> Failure(503, "ai_service_auth_failed")
      [] exc = "LLMAPIError" -> Failure(503, "ai_service_unavailable")

\* "Call LLM API"
GP_Generate ==
    /\ gpc = "generate"
    /\ \E answer \in ProviderAnswers :
          LET r == GenerateDayPlan(answer)
          IN  /\ gcalls' = Append(gcalls, Call("groq_create", gprompt, ~answer.raised))
              /\ IF r.raised
                 THEN /\ gerr' = Error(r.exc, r.message)
                      /\ EndRun(GenerationFailure(r.exc))
                      /\ UNCHANGED gtext
                 ELSE gtext' = r.val /\ gpc' = "validate" /\ UNCHANGED <<gout, gerr>>
    /\ UNCHANGED <<env, heap, rewriteVars, actVars, groq_key, reqs, storeVars,
                   greq, gtrip, gport, gweather, gprompt, gplan>>


\* A fallback that keeps the cleaned text instead of the text as returned.
Degraded_Cleaned(response_text) ==
    Object([raw_response |-> PyText(CleanResponse(response_text)),
            parse_error |-> [type |-> "bool", b |-> TRUE],
            error_message |-> PyText(<<"The AI generated an invalid response format.">>)])

\* The plan the handler falls back to when the text is no JSON.
Degraded(response_text) ==
    Object([raw_response |-> PyText(response_text),
            parse_error |-> [type |-> "bool", b |-> TRUE],
            error_message |-> PyText(<<"The AI generated an invalid response format.">>)])

\* A handler that stores the plan as parsed, its links not rewritten.
RewriteLinks_Skip(h, plan_data, e) == [heap |-> h, out |-> Return(plan_data)]

\* "Process activities to add affiliate tracking parameters": plan_data after
\* the if statement, or the exception it raises.
RewriteLinks(h, plan_data, e) ==
    LET has == Contains(plan_data, "activities")
    IN  IF has.raised THEN [heap |-> h, out |-> has]
        ELSE IF ~has.val THEN [heap |-> h, out |-> Return(plan_data)]
        ELSE IF plan_data.type # "object" THEN [heap |-> h, out |-> Raise("TypeError")]
        ELSE IF plan_data.items["activities"].type # "list"
             THEN [heap |-> h, out |-> Return(plan_data)]
        ELSE LET r == ProcessPlanActivities(h, plan_data.items["activities"], e)
             IN  IF r.out.raised THEN r
                 ELSE [heap |-> r.heap,
                       out |-> Return(Object([plan_data.items EXCEPT
                                                  !["activities"] = r.out.val]))]

\* "Parse JSON response": the parsed value, or the degraded plan when the
\* parse raises JSONDecodeError, which skips the rest of the try block.
GP_Validate ==
    /\ gpc = "validate"
    /\ \E parsed \in {ParseJsonResponse(heap, gtext)} :
           /\ heap' = parsed.heap
           /\ IF parsed.out.raised
              THEN gplan' = Degraded(gtext) /\ gpc' = "persist"
              ELSE gplan' = parsed.out.val /\ gpc' = "rewrite_links"
    /\ UNCHANGED <<env, rewriteVars, actVars, groq_key, reqs, storeVars,
                   greq, gtrip, gport, gweather, gprompt, gtext, gcalls, gout, gerr>>

\* The rest of the try block, on the parsed value.
GP_RewriteLinks ==
    /\ gpc = "rewrite_links"
    /\ \E r \in {RewriteLinks(heap, gplan, env)} :
           /\ heap' = r.heap
           /\ IF r.out.raised
              THEN EndRun(Unhandled(r.out.exc)) /\ UNCHANGED gplan
              ELSE gplan' = r.out.val /\ gpc' = "persist" /\ UNCHANGED gout
    /\ UNCHANGED <<env, rewriteVars, actVars, groq_key, reqs, storeVars,
                   greq, gtrip, gport, gweather, gprompt, gtext, gcalls, gerr>>

\* The plan item built from the request, the weather and plan_data.
PlanItem(plan_id, req, weather_data, plan_data) ==
    [plan_id |-> plan_id, device_id |-> req.device_id, trip_id |-> req.trip_id,
     port_id |-> req.port_id,
     weather |-> IF Truthy(weather_data) /\ Contains(weather_data, "daily").val
                 THEN weather_data.items["daily"] ELSE PyNone,
     plan |-> plan_data]

\* A handler that reports a failed write as a failed read.
PersistFailure_AsFetch == Failure(500, "data_fetch_failed")

\* The HTTPException raised when building or writing the plan raises.
PersistFailure == Failure(500, "plan_save_failed")

\* "Save plan to database"
GP_Persist ==
    /\ gpc = "persist"
    /\ LET plan == PlanItem(ids.plan + 1, greq, gweather, gplan)
       IN  \E ok \in BOOLEAN :
              /\ gcalls' = Append(gcalls, Call("put_item", plan.plan_id, ok))
              /\ IF ok
                 THEN plans' = Append(plans, plan) /\ EndRun(Success(plan))
                 ELSE UNCHANGED plans /\ EndRun(PersistFailure)
    /\ ids' = [ids EXCEPT !.plan = @ + 1]
    /\ UNCHANGED <<env, heap, rewriteVars, actVars, groq_key, reqs, db_client, trips,
                   greq, gtrip, gport, gweather, gprompt, gtext, gplan, gerr>>

GenInit ==
    /\ env \in ActEnvs
    /\ db_client \in {"client", "none"}
    /\ groq_key \in GroqKeys
    /\ ids = [trip |-> 0, port |-> 0, plan |-> 0]
    /\ trips = <<>>
    /\ plans = <<>>
    /\ reqs = [w \in Workers |-> NoRequest]
    /\ gpc = "idle"
    /\ greq = NoValue
    /\ gtrip = NoValue
    /\ gport = NoValue
    /\ gweather = NoValue
    /\ gprompt = <<>>
    /\ gtext = <<>>
    /\ gplan = NoValue
    /\ gerr = NoValue
    /\ gcalls = <<>>
    /\ gout = NoResponse
    /\ RewriteIdle
    /\ ActIdle

GenNext ==
    \/ \E device_id \in Devices : ids.trip < MaxTrips /\ CreateTrip(device_id)
    \/ \E trip_id \in 1..MaxTrips, device_id \in Devices :
          /\ ids.port < MaxPorts
          /\ AddPort_Start("w1", trip_id, device_id)
          /\ reqs'["w1"].pc = "update_trip"
    \/ AddPort_Update("w1") /\ reqs'["w1"].out.status = 200
    \/ \E trip_id \in 1..MaxTrips, port_id \in 1..MaxPorts, device_id \in Devices,
          currency \in Currencies :
          GP_Start(trip_id, port_id, device_id, currency)
    \/ GP_FetchContext
    \/ GP_FetchWeather
    \/ GP_BuildPrompt
    \/ GP_InitLLM
    \/ GP_Generate
    \/ GP_Validate
    \/ GP_RewriteLinks
    \/ GP_Persist

SpecGenerate == GenInit /\ [][GenNext]_vars


----------------------------------------------------------------------------
(* Properties of generate_plan.                                            *)

\* The trip of the request is in the table and owned by the device of the
\* request, and the port of the request is one of its ports.
TripOwned ==
    /\ greq.trip_id \in DOMAIN trips
    /\ trips[greq.trip_id].exists
    /\ trips[greq.trip_id].device_id = greq.device_id

PortInTrip ==
    /\ TripOwned
    /\ \E i \in 1..Len(trips[greq.trip_id].ports) :
          trips[greq.trip_id].ports[i].port_id = greq.port_id

LaterCalls == {"weather_get", "groq_create", "put_item"}

NotFound(response) ==
    /\ response.status = 404
    /\ response.error \in {"trip_not_found", "port_not_found"}

\* C10: when the read of the trip answers and the trip is not in the table, is
\* owned by another device or does not hold the requested port, that step ends
\* the run with the 404 not-found failure (trip_not_found for a trip that is
\* missing or not owned, port_not_found for a missing port); the run has then
\* made no weather request, no generation call and no write of a plan, and
\* nothing of the run or of the plans changes afterwards.
C10_NotFoundEndsRun ==
    [][ /\ ( /\ gpc = "fetch_context"
             /\ gpc' # gpc
             /\ gcalls'[Len(gcalls')].ok
             /\ ~PortInTrip )
           => /\ gpc' = "done"
              /\ gout' = Failure(404, IF TripOwned THEN "port_not_found"
                                      ELSE "trip_not_found")
              /\ \A i \in 1..Len(gcalls') : gcalls'[i].op \notin LaterCalls
              /\ plans' = plans
        /\ (gpc = "done" /\ NotFound(gout))
           => /\ UNCHANGED <<runVars, plans, heap>>
              /\ \A i \in 1..Len(gcalls) : gcalls[i].op \notin LaterCalls
      ]_vars

\* A run for a trip of another device has ended as not found.
C10_Witness ==
    /\ gpc = "done"
    /\ gout = Failure(404, "trip_not_found")
    /\ greq.trip_id \in DOMAIN trips
    /\ trips[greq.trip_id].device_id # greq.device_id
    /\ trips[greq.trip_id].ports # <<>>
    /\ gcalls[Len(gcalls)] = Call("get_item", greq.trip_id, TRUE)


\* The weather step has run and left a forecast: a JSON object whose "daily"
\* object holds a non-empty list for each requested quantity.  Anything else
\* is a failed fetch: the request raised, the status was not 200, or the body
\* was no JSON or not of that shape.
WeatherFetched == gweather # NoValue

ForecastOk(w) ==
    /\ w.type = "object"
    /\ "daily" \in DOMAIN w.items
    /\ w.items["daily"].type = "object"
    /\ \A k \in DailyKeys :
          /\ k \in DOMAIN w.items["daily"].items
          /\ w.items["daily"].items[k].items # <<>>

\* The failures of the steps after the weather step.
GenerationErrors == {"ai_service_not_configured", "ai_service_quota_exceeded",
                     "ai_service_auth_failed", "ai_service_unavailable"}
PersistErrors == {"plan_save_failed"}

\* C11: after a failed weather fetch the run goes on to the prompt, built
\* with the literal "Weather data unavailable.", and when it ends it ends in
\* success or in a generation or persistence failure, never in a failure of
\* its own.
C11_WeatherFailureGoesOn ==
    (WeatherFetched /\ ~ForecastOk(gweather) /\ gpc # "build_prompt")
    => /\ InText(Unavailable[1], gprompt)
       /\ gpc = "done" =>
             \/ gout.status = 200
             \/ gout.error \in GenerationErrors \cup PersistErrors


\* The failure the claim assigns to each class of error of the LLM client.
KindOf(exc) ==
    CASE exc = "ValueError" ->
            [status |-> 503, error |-> "ai_service_not_configured",
             retry_after |-> PyNone, plan |-> NoValue]
      [] exc = "LLMQuotaExceededError" ->
            [status |-> 503, error |-> "ai_service_quota_exceeded",
             retry_after |-> PyInt(300), plan |-> NoValue]
      [] exc = "LLMAuthenticationError" ->
            [status |-> 503, error |-> "ai_service_auth_failed",
             retry_after |-> PyNone, plan |-> NoValue]
      [] exc = "LLMAPIError" ->
            [status |-> 503, error |-> "ai_service_unavailable",
             retry_after |-> PyNone, plan |-> NoValue]

NoPlanWritten ==
    /\ plans = <<>>
    /\ \A i \in 1..Len(gcalls) : gcalls[i].op # "put_item"

\* C12: when the LLM client raises, the run has ended with the failure of
\* that class of error (quota with retry_after 300, authentication, any
\* other provider error, missing credential), and no text was parsed, no
\* link rewritten and no plan written; and a run ends with one of these four
\* failures only when the client raised.
C12_GenerationFailureKinds ==
    /\ gerr # NoValue
       => /\ gpc = "done"
          /\ gout = KindOf(gerr.exc)
          /\ gtext = <<>>
          /\ gplan = NoValue
          /\ heap = <<>>
          /\ NoPlanWritten
    /\ (gpc = "done" /\ gout.error \in GenerationErrors) => gerr # NoValue

\* The provider answered with a rate limit error and the run ended with the
\* quota failure.
C12_Witness ==
    /\ gpc = "done"
    /\ gerr = Error("LLMQuotaExceededError", <<"Rate_Limit", " reached">>)
    /\ gout.error = "ai_service_quota_exceeded"
    /\ gout.retry_after = PyInt(300)
    /\ gcalls[Len(gcalls)].op = "groq_create"


\* The spellings of the keywords in the messages, in any letter case.
QuotaWords == {"rate_limit", "Rate_Limit", "quota", "Quota"}
AuthWords == {"api key", "API Key", "authentication", "Authentication", "401",
              "unauthorized", "Unauthorized"}

Mentions(message, words) == \E i \in 1..Len(message) : message[i] \in words

\* C13: the class of the error generate_day_plan raises for a provider
\* exception is the quota error when the message holds a quota keyword in
\* any letter case, even next to an authentication keyword; else the
\* authentication error when it holds an authentication keyword; else the
\* generic error.
C13_ClassifiedInPriorityOrder ==
    (gerr # NoValue /\ gerr.exc # "ValueError")
    => gerr.exc = IF Mentions(gerr.message, QuotaWords) THEN "LLMQuotaExceededError"
                  ELSE IF Mentions(gerr.message, AuthWords) THEN "LLMAuthenticationError"
                  ELSE "LLMAPIError"

\* A message with a keyword of both kinds was classified as the quota error.
C13_Witness ==
    /\ gerr # NoValue
    /\ Mentions(gerr.message, QuotaWords)
    /\ Mentions(gerr.message, AuthWords)
    /\ gerr.exc = "LLMQuotaExceededError"


KeyMissing == groq_key \in {Unset, EnvVal(<<>>)}

ProviderCalls == {"weather_get", "groq_create"}

\* C14 as stated: when the run reports that the credential is missing, it
\* has made no network call to a provider.
C14_NoNetworkCallBefore ==
    (gerr # NoValue /\ gerr.exc = "ValueError")
    => \A i \in 1..Len(gcalls) : gcalls[i].op \notin ProviderCalls

\* C14: with GROQ_API_KEY unset or empty the run never gets past the
\* construction of the client: once the prompt is built the run has ended
\* with ai_service_not_configured, raised by the constructor, and it has made
\* no call to the generation provider.
C14_NotConfiguredBeforeGeneration ==
    KeyMissing
    => /\ gpc \notin {"generate", "validate", "rewrite_links", "persist"}
       /\ \A i \in 1..Len(gcalls) : gcalls[i].op # "groq_create"
       /\ (gpc = "done" /\ gprompt # <<>>)
          => /\ gout = Failure(503, "ai_service_not_configured")
             /\ gerr # NoValue
             /\ gerr.exc = "ValueError"

\* A run with an empty GROQ_API_KEY has ended as not configured, right after
\* its weather request.
C14_Witness ==
    /\ groq_key = EnvVal(<<>>)
    /\ gpc = "done"
    /\ gout.error = "ai_service_not_configured"
    /\ gcalls[Len(gcalls)].op = "weather_get"


\* The texts of the provider that are no JSON document, even after cleaning.
UnparsableTexts == {<<" ", "Here is the plan: ", "{plan}", "\n">>}

Validated == gplan # NoValue

\* C15: when the text of the provider is no JSON, plan_data is the degraded
\* plan whose raw_response is the text exactly as returned, with parse_error
\* true and an error message; the run goes on to the write of the plan, and
\* unless that write fails it ends in success with the stored plan holding
\* that degraded plan.
C15_ParseFailureDegrades ==
    (Validated /\ gtext \in UnparsableTexts)
    => /\ gplan = Object([raw_response |-> [type |-> "str", form |-> "text", text |-> gtext],
                          parse_error |-> [type |-> "bool", b |-> TRUE],
                          error_message |->
                              PyText(<<"The AI generated an invalid response format.">>)])
       /\ gpc \in {"persist", "done"}
       /\ gpc = "done"
          => \/ /\ gout.status = 200
                /\ gout.plan.plan = gplan
                /\ plans = <<gout.plan>>
             \/ /\ gout = Failure(500, "plan_save_failed")
                /\ plans = <<>>

\* A run whose text was no JSON has ended in success with the degraded plan.
C15_Witness ==
    /\ gpc = "done"
    /\ gtext \in UnparsableTexts
    /\ gout.status = 200
    /\ gout.plan.plan.items["raw_response"].text = gtext
    /\ plans = <<gout.plan>>


\* The texts of the provider that are a JSON object with nothing wrong in
\* its activities, and those that are JSON but no object.
ObjectTexts == {<<"{plan}">>, Fence \o <<"json", "\n", "{plan}", "\n">> \o Fence,
                <<"{activities:null}">>}
NonObjectTexts == {<<"5">>, <<"null">>, <<"[]">>, <<"\"activities\"">>}

Generated == gerr = NoValue /\ gtext # <<>>

Persisted == gcalls # <<>> /\ gcalls[Len(gcalls)].op = "put_item"

\* C16: whatever text the provider returned (a JSON object, a text that is
\* no JSON, or JSON that is no object) the run goes on to the write of the
\* plan: it never ends before it.
C16_ValidateNeverFails ==
    (gpc = "done" /\ Generated
        /\ gtext \in ObjectTexts \cup UnparsableTexts \cup NonObjectTexts)
    => Persisted

\* C17: whatever the elements of the activities list of a parsed plan are,
\* the run goes on to the write of the plan: it never ends before it.
C17_RewriteLinksNeverFails ==
    (gpc = "done" /\ Generated /\ Validated
        /\ gplan.type = "object"
        /\ "activities" \in DOMAIN gplan.items
        /\ gplan.items["activities"].type = "list")
    => Persisted


----------------------------------------------------------------------------
(* The parser scenario: a text is drawn, a JSON document or a text that is  *)
(* none, bare or inside formatting noise, and parse_json_response is        *)
(* applied to it.                                                           *)

Documents == JsonDocs \cup {"not json"}

\* The document as it is, inside white space, inside a code fence with or
\* without a language tag on its first line, and after a bare "json" line.
Noisy(d) == {
    <<d>>,
    <<" ", d>>,
    <<d, "\n">>,
    <<"\n", "\t", d, " ", "\n">>,
    Fence \o <<"\n", d, "\n">> \o Fence,
    Fence \o <<"json", "\n", d, "\n">> \o Fence,
    Fence \o <<"javascript", "\n", d, "\n">> \o Fence,
    <<" ">> \o Fence \o <<"json", "\n", " ", d, " ", "\n">> \o Fence \o <<"\n">>,
    Fence \o <<"json", "\n", d>>,
    <<"json", "\n", d>>,
    <<" ", "json", "\n", d, "\n">> }

NoisyTexts == UNION {Noisy(d) : d \in Documents}

ParseInit ==
    /\ env \in {[v \in EnvVars |-> Unset]}
    /\ gtext \in NoisyTexts
    /\ gpc = "parse"
    /\ heap = <<>>
    /\ heap0 = <<>>
    /\ acts = PyNone
    /\ ares = Pending
    /\ apc = "off"
    /\ RewriteIdle
    /\ db_client = "none"
    /\ groq_key = Unset
    /\ ids = [trip |-> 0, port |-> 0, plan |-> 0]
    /\ trips = <<>>
    /\ plans = <<>>
    /\ reqs = <<>>
    /\ greq = NoValue
    /\ gtrip = NoValue
    /\ gport = NoValue
    /\ gweather = NoValue
    /\ gprompt = <<>>
    /\ gplan = NoValue
    /\ gerr = NoValue
    /\ gcalls = <<>>
    /\ gout = NoResponse

\* plan_data = parse_json_response(response_text)
ParseCall ==
    /\ gpc = "parse"
    /\ \E parsed \in {ParseJsonResponse(heap, gtext)} :
          /\ heap' = parsed.heap
          /\ IF parsed.out.raised
             THEN gerr' = Error(parsed.out.exc, <<>>) /\ UNCHANGED gplan
             ELSE gplan' = parsed.out.val /\ UNCHANGED gerr
    /\ gpc' = "parsed"
    /\ UNCHANGED <<env, rewriteVars, actVars, groq_key, reqs, storeVars,
                   greq, gtrip, gport, gweather, gprompt, gtext, gcalls, gout>>

ParseNext == ParseCall

SpecParse == ParseInit /\ [][ParseNext]_vars

\* The JSON document inside the text, when there is one.
HasDocument == \E d \in JsonDocs : InText(d, gtext)
DocumentOf == CHOOSE d \in JsonDocs : InText(d, gtext)

\* C18: a JSON document inside white space, inside a code fence with or
\* without a language tag on its first line, or after a bare "json" line
\* parses to the value the document alone parses to, and the text handed to
\* the JSON parser holds no fence marker.
C18_NoiseTolerated ==
    (gpc = "parsed" /\ HasDocument)
    => LET plain == ParseJsonResponse(<<>>, <<DocumentOf>>)
       IN  /\ ~plain.out.raised
           /\ gerr = NoValue
           /\ gplan = plain.out.val
           /\ heap = plain.heap
           /\ ~InText(Fence[1], CleanResponse(gtext))

\* A fenced plan with a language tag was parsed to the plan object.
C18_Witness ==
    /\ gpc = "parsed"
    /\ gtext = Fence \o <<"javascript", "\n", "{plan}", "\n">> \o Fence
    /\ gplan.type = "object"
    /\ "activities" \in DOMAIN gplan.items
    /\ Len(heap) = 2


ContextErrors == {"trip_not_found", "port_not_found", "data_fetch_failed"}
DatabaseErrors == {"database_unavailable", "database_connection_lost"}

CallMade(op, ok) == \E i \in 1..Len(gcalls) : gcalls[i].op = op /\ gcalls[i].ok = ok

WriteFailed ==
    /\ gcalls # <<>>
    /\ gcalls[Len(gcalls)].op = "put_item"
    /\ ~gcalls[Len(gcalls)].ok

\* C19: when the write of the plan fails the run has ended with
\* plan_save_failed and no plan is stored; plan_save_failed is none of the
\* earlier failures, and a run ends with it only after the trip and the port
\* were found, the provider returned a text and plan_data was built.
C19_PersistFailureDistinct ==
    /\ WriteFailed => (gpc = "done" /\ gout = Failure(500, "plan_save_failed") /\ plans = <<>>)
    /\ (gpc = "done" /\ gout.error = "plan_save_failed")
       => /\ WriteFailed
          /\ gout.error \notin DatabaseErrors \cup ContextErrors \cup GenerationErrors
          /\ CallMade("get_item", TRUE)
          /\ gtrip.exists /\ gtrip.device_id = greq.device_id
          /\ gport.port_id = greq.port_id
          /\ CallMade("groq_create", TRUE)
          /\ Generated
          /\ Validated
    /\ (gpc = "done" /\ gout.status = 500 /\ ~WriteFailed) => gout.error # "plan_save_failed"

\* The write of a parsed plan failed and the run ended with plan_save_failed.
C19_Witness ==
    /\ gpc = "done"
    /\ WriteFailed
    /\ gout.error = "plan_save_failed"
    /\ gplan.type = "object"
    /\ "activities" \in DOMAIN gplan.items
    /\ plans = <<>>


\* C20: a run that has ended has ended in success with a plan, or in one of
\* the failures of the context, generation and persistence steps (counting
\* the database check and a failed read of the trip with the context step);
\* success carries no error and a failure carries no plan.
C20_OutcomeInTaxonomy ==
    gpc = "done"
    => \/ /\ gout.status = 200
          /\ gout.error = "none"
          /\ gout.plan # NoValue
       \/ /\ gout.status # 200
          /\ gout.plan = NoValue
          /\ gout.error \in DatabaseErrors \cup ContextErrors
                            \cup GenerationErrors \cup PersistErrors



----------------------------------------------------------------------------
(* The currency of the request in the prompt.                              *)

CurrencyCodes == {"GBP", "USD", "EUR"}

\* The texts of the prompt that a currency follows: the preference line, the
\* cost rules 6 and 7 and the two cost formats of the answer.
CurrencyMarks ==
    {"- Preferred currency: ", "6. ALL cost estimates must be shown in ",
     " - use the ", "7. The total_estimated_cost must also be in ",
     "total_estimated_cost: estimated total cost per person in ",
     "cost_estimate: e.g. Free, ~"}

PromptBuilt == gprompt # <<>>

\* What the prompt says at its currency places, and the currency codes that
\* occur anywhere in it.
CurrencyPlaces == {i \in 2..Len(gprompt) : gprompt[i - 1] \in CurrencyMarks}
CodesInPrompt == {gprompt[i] : i \in 1..Len(gprompt)} \cap CurrencyCodes

\* The value of the request stands at a place of the prompt.
StandsAt(i, value) ==
    IF value = <<>> THEN gprompt[i] \notin CurrencyCodes ELSE gprompt[i] = value[1]

\* C21 as stated: whatever currency value the request carries, the prompt
\* has that value at each of its currency places and no other currency code.
C21_CurrencyUnchanged ==
    PromptBuilt
    => /\ \A i \in CurrencyPlaces : StandsAt(i, greq.currency)
       /\ CodesInPrompt \subseteq {greq.currency[i] : i \in 1..Len(greq.currency)}

\* C21, amended: a currency value that is not empty stands unchanged at each
\* of the six currency places of the prompt and no other currency code occurs
\* in it; for an empty value the prompt names GBP at each of them.
C21_CurrencyOrDefault ==
    PromptBuilt
    => /\ Cardinality(CurrencyPlaces) = 6
       /\ IF greq.currency # <<>>
          THEN /\ \A i \in CurrencyPlaces : gprompt[i] = greq.currency[1]
               /\ CodesInPrompt = {greq.currency[1]}
          ELSE /\ \A i \in CurrencyPlaces : gprompt[i] = "GBP"
               /\ CodesInPrompt = {"GBP"}

C21_Witness ==
    /\ PromptBuilt
    /\ greq.currency = <<"EUR">>
    /\ \E i \in CurrencyPlaces : gprompt[i - 1] = "- Preferred currency: " /\ gprompt[i] = "EUR"
    /\ \E i \in CurrencyPlaces : gprompt[i - 1] = "cost_estimate: e.g. Free, ~" /\ gprompt[i] = "EUR"
    /\ "GBP" \notin CodesInPrompt



----------------------------------------------------------------------------
(* The write of the plan.                                                  *)

PutCalls == {i \in 1..Len(gcalls) : gcalls[i].op = "put_item"}

\* The put of the plan is the last call of the run, after a read of the trip
\* and a call of the provider that both answered.
PutComesLast ==
    \A k \in PutCalls :
        /\ k = Len(gcalls)
        /\ \E i \in 1..(k - 1) : gcalls[i].op = "get_item" /\ gcalls[i].ok
        /\ \E j \in 1..(k - 1) : gcalls[j].op = "groq_create" /\ gcalls[j].ok

\* The activity dicts of a plan, or none when it has no list of activities.
ActivityItems(plan_data) ==
    IF plan_data.type = "object" /\ "activities" \in DOMAIN plan_data.items
       /\ plan_data.items["activities"].type = "list"
    THEN plan_data.items["activities"].items
    ELSE <<>>

\* The plan as json.loads read it from the text of the provider; its dicts
\* are the first of the heap.
ParsedPlan == ParseJsonResponse(<<>>, gtext).out.val

\* Each activity of the plan is the parsed activity with its booking_url, if
\* it has one, replaced by what add_affiliate_params returns for it.
LinksRewritten(plan_data) ==
    LET parsed == ActivityItems(ParsedPlan)
        stored == ActivityItems(plan_data)
    IN  /\ Len(stored) = Len(parsed)
        /\ \A i \in 1..Len(stored) :
              LET a == DictOf(heap, parsed[i])
                  b == DictOf(heap, stored[i])
              IN  /\ DOMAIN b = DOMAIN a
                  /\ \A k \in DOMAIN a :
                        b[k] = IF k = "booking_url" /\ Truthy(a[k])
                               THEN AddAffiliateParams(a[k], env).val
                               ELSE a[k]

\* C25: the plan store is written at most once in a run, by the last call of
\* the run and after the trip was read and the provider answered; a run that
\* ended in a database, context or generation failure has stored nothing; a
\* run that ended in success returns the one plan item it stored, whose plan
\* is plan_data with the booking URLs of its activities rewritten.
C25_PlanWrittenOnce ==
    /\ Cardinality(PutCalls) <= 1
    /\ Len(plans) <= 1
    /\ PutComesLast
    /\ plans # <<>> => (PutCalls # {} /\ gpc = "done" /\ gout.status = 200)
    /\ (gpc = "done" /\ gout.error \in DatabaseErrors \cup ContextErrors \cup GenerationErrors)
       => (plans = <<>> /\ PutCalls = {})
    /\ (gpc = "done" /\ gout.status = 200)
       => /\ plans = <<gout.plan>>
          /\ gout.plan.plan = gplan
          /\ gout.plan.trip_id = greq.trip_id
          /\ gout.plan.port_id = greq.port_id
          /\ gout.plan.device_id = greq.device_id
          /\ Validated
          /\ gplan.type = "object" /\ "parse_error" \notin DOMAIN gplan.items
             => LinksRewritten(gplan)

\* A run returned the plan it stored, and the link of its first activity
\* carries the partner's parameter, which the text of the provider had not.
C25_Witness ==
    /\ gpc = "done"
    /\ gout.status = 200
    /\ plans = <<gout.plan>>
    /\ Len(ActivityItems(gout.plan.plan)) = 2
    /\ LET a == DictOf(heap, ActivityItems(ParsedPlan)[1])
           b == DictOf(heap, ActivityItems(gout.plan.plan)[1])
       IN  /\ a["booking_url"] = ViatorUrl(<<>>)
           /\ b["booking_url"] # a["booking_url"]
           /\ b["booking_url"].query # <<>>



----------------------------------------------------------------------------
(* The query of a rewritten URL.                                           *)

\* The name/value pairs of a query string, as parse_qsl reads them with
\* blank values kept.
PairsOf(u) ==
    LET pairs == ParseQsl(u.query, TRUE)
    IN  {pairs[i] : i \in 1..Len(pairs)}

\* C26: every name/value pair of the query of the URL, the values of a
\* repeated name and the blank values included, is a pair of the query of
\* the rewritten URL.
C26_QueryPairsKept ==
    Rewritten => PairsOf(url) \subseteq PairsOf(out1.val)



----------------------------------------------------------------------------
(* The trip and port handlers, one request after the other: the table is   *)
(* built by create_trip and add_port and any handler may be called next.   *)

StoreInit ==
    /\ env = [v \in EnvVars |-> Unset]
    /\ db_client = "client"
    /\ groq_key = EnvVal(<<"gsk_1">>)
    /\ ids = [trip |-> 0, port |-> 0, plan |-> 0]
    /\ trips = <<>>
    /\ plans = <<>>
    /\ reqs = [w \in Workers |-> NoRequest]
    /\ gpc = "idle"
    /\ greq = NoValue
    /\ gtrip = NoValue
    /\ gport = NoValue
    /\ gweather = NoValue
    /\ gprompt = <<>>
    /\ gtext = <<>>
    /\ gplan = NoValue
    /\ gerr = NoValue
    /\ gcalls = <<>>
    /\ gout = NoResponse
    /\ RewriteIdle
    /\ ActIdle

\* The port ids of the requests: those of the ports, and one no port has.
PortIds == 1..(MaxPorts + 1)

TripsNext ==
    \/ \E device_id \in Devices : ids.trip < MaxTrips /\ CreateTrip(device_id)
    \/ \E trip_id \in 1..MaxTrips, device_id \in Devices : GetTripReq("w1", trip_id, device_id)
    \/ \E device_id \in Devices : ListTripsReq("w1", device_id)
    \/ \E trip_id \in 1..MaxTrips, device_id \in Devices : UpdateTripReq("w1", trip_id, device_id)
    \/ \E trip_id \in 1..MaxTrips, device_id \in Devices : DeleteTrip_Start("w1", trip_id, device_id)
    \/ DeleteTrip_Scan("w1")
    \/ \E trip_id \in 1..MaxTrips, device_id \in Devices :
          ids.port < MaxPorts /\ AddPort_Start("w1", trip_id, device_id)
    \/ AddPort_Update("w1")
    \/ \E trip_id \in 1..MaxTrips, port_id \in PortIds, device_id \in Devices :
          UpdatePort_Start("w1", trip_id, port_id, device_id)
    \/ UpdatePort_Update("w1")
    \/ \E trip_id \in 1..MaxTrips, port_id \in PortIds, device_id \in Devices :
          DeletePort_Start("w1", trip_id, port_id, device_id)
    \/ DeletePort_Update("w1")
    \/ DeletePort_Scan("w1")

SpecTrips == StoreInit /\ [][TripsNext]_vars



----------------------------------------------------------------------------
(* Properties of the trip and port handlers.                               *)

\* The worker takes a step; it begins a request; its request ends.
Steps(w) == reqs'[w] # reqs[w]
Begins(w) == Free(w) /\ Steps(w)
Ends(w) == Steps(w) /\ reqs'[w].pc = "done"

TripWrites == {"update_trip", "delete_trip", "add_port", "update_port", "delete_port"}

\* The trip is in the table and owned by another device than device_id.
OthersTrip(trip_id, device_id) ==
    /\ trip_id \in DOMAIN trips
    /\ trips[trip_id].exists
    /\ trips[trip_id].device_id # device_id

\* C22: get_trip and list_trips return only trips of the device of the
\* request; an item of the table changes or goes only in a step of a request
\* that carries the device id of the item; and update_trip, delete_trip,
\* add_port, update_port and delete_port called for the trip of another
\* device end at once, with 404 trip_not_found unless the database fails,
\* and leave the table as it was.
C22_TripsIsolated ==
    [][/\ \A w \in Workers :
             (Ends(w) /\ reqs'[w].out.status = 200)
             => /\ reqs'[w].op = "get_trip"
                   => /\ reqs'[w].out.body.trip.device_id = reqs'[w].device_id
                      /\ reqs'[w].out.body.trip = trips[reqs'[w].trip_id]
                /\ reqs'[w].op = "list_trips"
                   => \A i \in 1..Len(reqs'[w].out.body.trips) :
                         reqs'[w].out.body.trips[i].device_id = reqs'[w].device_id
       /\ \A t \in DOMAIN trips :
             /\ t \in DOMAIN trips'
             /\ trips'[t] # trips[t]
                => /\ trips[t].exists
                   /\ \E w \in Workers :
                         /\ Steps(w)
                         /\ reqs'[w].op \in TripWrites
                         /\ reqs'[w].trip_id = t
                         /\ reqs'[w].device_id = trips[t].device_id
       /\ \A w \in Workers :
             (Begins(w) /\ reqs'[w].op \in TripWrites \cup {"get_trip"}
                 /\ OthersTrip(reqs'[w].trip_id, reqs'[w].device_id))
             => /\ reqs'[w].pc = "done"
                /\ reqs'[w].out.status \in {404, 500, 503}
                /\ reqs'[w].out.status = 404 => reqs'[w].out.error = "trip_not_found"
                /\ reqs'[w].out.body = NoBody
                /\ trips' = trips
      ]_vars

\* The trip of one device, with a port, after update_trip was called for it
\* by the other device and answered 404: the ship has the name it was
\* created with.
C22_Witness ==
    \E w \in Workers :
        /\ reqs[w].pc = "done"
        /\ reqs[w].op = "update_trip"
        /\ reqs[w].out = Fail(404, "trip_not_found")
        /\ OthersTrip(reqs[w].trip_id, reqs[w].device_id)
        /\ trips[reqs[w].trip_id].ship_name = <<"Aurora">>
        /\ trips[reqs[w].trip_id].ports # <<>>



PortOps == {"add_port", "update_port", "delete_port"}

NotFoundOrDown(out, error) ==
    /\ out.status \in {404, 500, 503}
    /\ out.status = 404 => out.error = error
    /\ out.body = NoBody

----------------------------------------------------------------------------
(* The port handlers and delete_trip, two requests at a time: each worker  *)
(* handles one request, and the calls of the two handlers to the table     *)
(* interleave.                                                             *)

\* The ports add_port may add when two requests run at a time.
MaxAdded == 2

Idle(w) == reqs[w].pc = "idle"

PortsNext ==
    \/ \E device_id \in Devices : ids.trip < MaxTrips /\ CreateTrip(device_id)
    \/ \E w \in Workers, trip_id \in 1..MaxTrips, device_id \in Devices :
          Idle(w) /\ ids.port < MaxAdded /\ AddPort_Start(w, trip_id, device_id)
    \/ \E w \in Workers : AddPort_Update(w)
    \/ \E w \in Workers, trip_id \in 1..MaxTrips, port_id \in 1..MaxAdded, device_id \in Devices :
          Idle(w) /\ UpdatePort_Start(w, trip_id, port_id, device_id)
    \/ \E w \in Workers : UpdatePort_Update(w)
    \/ \E w \in Workers, trip_id \in 1..MaxTrips, port_id \in 1..MaxAdded, device_id \in Devices :
          Idle(w) /\ DeletePort_Start(w, trip_id, port_id, device_id)
    \/ \E w \in Workers : DeletePort_Update(w)
    \/ \E w \in Workers : DeletePort_Scan(w)
    \/ \E w \in Workers, trip_id \in 1..MaxTrips, device_id \in Devices :
          Idle(w) /\ DeleteTrip_Start(w, trip_id, device_id)
    \/ \E w \in Workers : DeleteTrip_Scan(w)

SpecPorts == StoreInit /\ [][PortsNext]_vars


\* The requests of the port handlers that have returned.
PortDone(w) == reqs[w].pc = "done" /\ reqs[w].op \in PortOps

\* C24: a delete_port that found the trip, did not find the port in it, and
\* whose update_trip returned None (nothing was updated) has answered 404,
\* when no later call of the store raised.
C24_NothingUpdatedIs404 ==
    \A w \in Workers :
        (/\ PortDone(w)
         /\ reqs[w].op = "delete_port"
         /\ ~reqs[w].found
         /\ IsNone(reqs[w].updated)
         /\ reqs[w].out.error # "port_deletion_failed")
        => reqs[w].out.status = 404

\* The ports now stored for the trip of a request.
StoredPorts(r) == GetItem(trips, r.trip_id).ports

\* The change of a port request stands in the stored ports of its trip: the
\* port added is there, the port updated carries its new name, the port
\* deleted is not there.
Reflected(r) ==
    LET port == FindPort(StoredPorts(r), r.port_id)
    IN  CASE r.op = "add_port" -> ~IsNone(port)
          [] r.op = "update_port" -> ~IsNone(port) /\ port.name = <<"Cozumel">>
          [] r.op = "delete_port" -> IsNone(port)

\* C29: when two port requests on one trip, for two ports, have both
\* answered 200 and the trip is still stored, the stored ports show the
\* change of each.
C29_BothChangesStand ==
    \A w1, w2 \in Workers :
        (/\ w1 # w2
         /\ PortDone(w1) /\ reqs[w1].out.status = 200
         /\ PortDone(w2) /\ reqs[w2].out.status = 200
         /\ reqs[w1].trip_id = reqs[w2].trip_id
         /\ reqs[w1].port_id # reqs[w2].port_id
         /\ GetItem(trips, reqs[w1].trip_id).exists)
        => Reflected(reqs[w1]) /\ Reflected(reqs[w2])



----------------------------------------------------------------------------
(* The handlers that delete plans, beside one run of generate_plan: each   *)
(* worker handles one request, and the steps of the requests and of the    *)
(* run interleave.  The weather provider gives no forecast and the model   *)
(* answers with the plan or with an error.                                 *)

PlansNext ==
    \/ \E device_id \in Devices : ids.trip < MaxTrips /\ CreateTrip(device_id)
    \/ \E w \in Workers, trip_id \in 1..MaxTrips, device_id \in Devices :
          Idle(w) /\ ids.port < MaxPorts /\ AddPort_Start(w, trip_id, device_id)
    \/ \E w \in Workers : AddPort_Update(w)
    \/ \E w \in Workers, trip_id \in 1..MaxTrips, port_id \in 1..MaxPorts, device_id \in Devices :
          Idle(w) /\ DeletePort_Start(w, trip_id, port_id, device_id)
    \/ \E w \in Workers : DeletePort_Update(w)
    \/ \E w \in Workers : DeletePort_Scan(w)
    \/ \E w \in Workers, trip_id \in 1..MaxTrips, device_id \in Devices :
          Idle(w) /\ DeleteTrip_Start(w, trip_id, device_id)
    \/ \E w \in Workers : DeleteTrip_Scan(w)
    \/ \E w \in Workers : Plans_Delete(w)
    \/ \E w \in Workers, device_id \in Devices :
          Idle(w) /\ DeletePlanReq(w, 1, device_id)
    \/ \E trip_id \in 1..MaxTrips, port_id \in 1..MaxPorts, device_id \in Devices :
          GP_Start(trip_id, port_id, device_id, <<"EUR">>)
    \/ GP_FetchContext
    \/ GP_FetchWeather /\ gweather' = PyNone
    \/ GP_BuildPrompt
    \/ GP_InitLLM
    \/ GP_Generate /\ (gpc' = "validate" => gtext' = <<"{plan}">>)
    \/ GP_Validate
    \/ GP_RewriteLinks
    \/ GP_Persist

SpecPlans == StoreInit /\ [][PlansNext]_vars


\* The plans that are stored before a step and not after it.
RemovedPlans ==
    {i \in 1..Len(plans) : \A j \in 1..Len(plans') : plans'[j].plan_id # plans[i].plan_id}

\* C27: a plan leaves the store only in a step of a request that carries the
\* device id of the plan.
C27_OwnPlansOnly ==
    [][\A i \in RemovedPlans :
          \E w \in Workers : Steps(w) /\ reqs'[w].device_id = plans[i].device_id]_vars

\* The plans of a trip that are stored.
PlansOfTrip(table, trip_id) == SelectSeq(table, LAMBDA p : p.trip_id = trip_id)

\* C28: once delete_trip has answered 200 for a trip, all of its deletes
\* done, no stored plan names the trip.
C28_NoOrphanPlan ==
    \A w \in Workers :
        (/\ reqs[w].pc = "done"
         /\ reqs[w].op = "delete_trip"
         /\ reqs[w].out.status = 200
         /\ reqs[w].warnings = 0)
        => PlansOfTrip(plans, reqs[w].trip_id) = <<>>

\* C30: when a delete_trip that called the store's delete ends, an error
\* leaves the trip and its plans as they were before the request, and a
\* success leaves neither the trip nor a plan of it.
C30_AllOrNothing ==
    [][\A w \in Workers :
          (/\ reqs[w].op = "delete_trip"
           /\ reqs[w].pc \in {"scan", "delete_item"}
           /\ Ends(w))
          => IF reqs'[w].out.status = 200
             THEN /\ ~GetItem(trips', reqs[w].trip_id).exists
                  /\ PlansOfTrip(plans', reqs[w].trip_id) = <<>>
             ELSE /\ GetItem(trips', reqs[w].trip_id) = reqs[w].before.trip
                  /\ PlansOfTrip(plans', reqs[w].trip_id) = reqs[w].before.plans]_vars

====
